---------------------------- MODULE Spec2Model ----------------------------
(***************************************************************************)
(* asp-eks: SSO profile generation into the AWS profile store              *)
(* (~/.aws/config) and the "use" workflow that updates the Kubernetes      *)
(* client configuration (~/.kube/config).                                  *)
(*                                                                         *)
(* Text is modelled at character level: a string is a sequence of          *)
(* one-character strings, a file is a sequence of lines, each line a       *)
(* string.  The ini reader and the hand-written config writer are both     *)
(* modelled by what they do to those characters.                           *)
(***************************************************************************)
EXTENDS Integers, Sequences, FiniteSets, TLC

(***************************************************************************)
(* Characters and Go's strings package                                     *)
(***************************************************************************)

\* The characters used, in ASCII order (Go compares strings bytewise).  The
\* token "BQ" stands for the backquote character (U+0060), which a TLA+
\* string cannot hold.
Alphabet ==
    <<" ", "#", "-", ".", "/",
      "0", "1", "2", "3", "4", "5", "6", "7", "8", "9",
      ":", ";", "=",
      "A", "B", "C", "D", "E", "F", "G", "H", "I", "J", "K", "L", "M",
      "N", "O", "P", "Q", "R", "S", "T", "U", "V", "W", "X", "Y", "Z",
      "[", "]", "_", "BQ",
      "a", "b", "c", "d", "e", "f", "g", "h", "i", "j", "k", "l", "m",
      "n", "o", "p", "q", "r", "s", "t", "u", "v", "w", "x", "y", "z">>

BackQuote ==
    "BQ"

CharRank(c) ==
    CHOOSE i \in 1..Len(Alphabet) : Alphabet[i] = c

UpperCase ==
    {"A", "B", "C", "D", "E", "F", "G", "H", "I", "J", "K", "L", "M",
     "N", "O", "P", "Q", "R", "S", "T", "U", "V", "W", "X", "Y", "Z"}

Min(S) ==
    CHOOSE x \in S : \A y \in S : x <= y

Max(S) ==
    CHOOSE x \in S : \A y \in S : x >= y

\* a < b on Go strings
LexLess(a, b) ==
    LET n == IF Len(a) < Len(b) THEN Len(a) ELSE Len(b)
        d == {i \in 1..n : a[i] # b[i]}
    IN  IF d = {} THEN Len(a) < Len(b)
        ELSE CharRank(a[Min(d)]) < CharRank(b[Min(d)])

\* strings.ToLower
ToLower(s) ==
    [i \in 1..Len(s) |->
        IF s[i] \in UpperCase
        THEN Alphabet[CharRank(s[i]) + (CharRank("a") - CharRank("A"))]
        ELSE s[i]]

\* strings.ReplaceAll for a one-character pattern and replacement
ReplaceAll(s, old, new) ==
    [i \in 1..Len(s) |-> IF s[i] = old THEN new ELSE s[i]]

\* strings.Contains
Contains(s, sub) ==
    \E i \in 0..(Len(s) - Len(sub)) : SubSeq(s, i + 1, i + Len(sub)) = sub

\* strings.HasPrefix
HasPrefix(s, p) ==
    Len(s) >= Len(p) /\ SubSeq(s, 1, Len(p)) = p

\* strings.TrimPrefix
TrimPrefix(s, p) ==
    IF HasPrefix(s, p) THEN SubSeq(s, Len(p) + 1, Len(s)) ELSE s

\* strings.TrimRight(s, cutset)
TrimRight(s, cutset) ==
    LET keep == {i \in 1..Len(s) : s[i] \notin cutset}
    IN  IF keep = {} THEN <<>> ELSE SubSeq(s, 1, Max(keep))

\* The white space strings.TrimSpace removes: space, line feed, carriage
\* return, tab (written as the tokens "LF", "CR", "TAB")
WhiteSpace ==
    {" ", "LF", "CR", "TAB"}

\* strings.TrimLeftFunc(s, unicode.IsSpace)
TrimLeftSpace(s) ==
    LET keep == {i \in 1..Len(s) : s[i] \notin WhiteSpace}
    IN  IF keep = {} THEN <<>> ELSE SubSeq(s, Min(keep), Len(s))

\* strings.TrimSpace
TrimSpace(s) ==
    TrimRight(TrimLeftSpace(s), WhiteSpace)

\* strings.IndexAny, 1-based; 0 when no character of cs occurs
IndexAny(s, cs) ==
    LET hit == {i \in 1..Len(s) : s[i] \in cs}
    IN  IF hit = {} THEN 0 ELSE Min(hit)

\* strings.LastIndex for a one-character pattern, 1-based; 0 when absent
LastIndexByte(s, c) ==
    LET hit == {i \in 1..Len(s) : s[i] = c}
    IN  IF hit = {} THEN 0 ELSE Max(hit)

(***************************************************************************)
(* String constants of the program                                         *)
(***************************************************************************)

DefaultSection ==
    <<"D", "E", "F", "A", "U", "L", "T">>
ProfilePrefix ==
    <<"p", "r", "o", "f", "i", "l", "e", " ">>
SsoSessionPrefix ==
    <<"s", "s", "o", "-", "s", "e", "s", "s", "i", "o", "n", " ">>
DefaultSSOName ==
    <<"D", "E", "F", "A", "U", "L", "T", "-", "S", "S", "O">>
K_sso_start_url ==
    <<"s", "s", "o", "_", "s", "t", "a", "r", "t", "_", "u", "r", "l">>
K_sso_region ==
    <<"s", "s", "o", "_", "r", "e", "g", "i", "o", "n">>
K_sso_registration_scopes ==
    <<"s", "s", "o", "_", "r", "e", "g", "i", "s", "t", "r", "a", "t", "i", "o", "n", "_", "s", "c", "o", "p", "e", "s">>
K_sso_role_name ==
    <<"s", "s", "o", "_", "r", "o", "l", "e", "_", "n", "a", "m", "e">>
K_sso_account_id ==
    <<"s", "s", "o", "_", "a", "c", "c", "o", "u", "n", "t", "_", "i", "d">>
K_sso_session ==
    <<"s", "s", "o", "_", "s", "e", "s", "s", "i", "o", "n">>
K_region ==
    <<"r", "e", "g", "i", "o", "n">>
K_output ==
    <<"o", "u", "t", "p", "u", "t">>
V_json ==
    <<"j", "s", "o", "n">>
V_scopes ==
    <<"s", "s", "o", ":", "a", "c", "c", "o", "u", "n", "t", ":", "a", "c", "c", "e", "s", "s">>
V_itfrun_operator ==
    <<"i", "t", "f", "r", "u", "n", "-", "o", "p", "e", "r", "a", "t", "o", "r">>
V_itfrun_prefix ==
    <<"i", "t", "f", "r", "u", "n", "-">>
V_operator ==
    <<"o", "p", "e", "r", "a", "t", "o", "r">>
V_eu_central_1 ==
    <<"e", "u", "-", "c", "e", "n", "t", "r", "a", "l", "-", "1">>

(***************************************************************************)
(* gopkg.in/ini.v1 as the program uses it (ini.Load and ini.Empty with     *)
(* default options): an ini.File is its section list, each section its     *)
(* name and its key list in insertion order.                               *)
(***************************************************************************)

\* ini.Empty(): the DEFAULT section always exists and comes first
IniEmpty ==
    << [name |-> DefaultSection, keys |-> <<>>] >>

SecIndex(cfg, name) ==
    LET hit == {i \in 1..Len(cfg) : cfg[i].name = name}
    IN  IF hit = {} THEN 0 ELSE Min(hit)

HasSection(cfg, name) ==
    SecIndex(cfg, name) # 0

\* File.NewSection: an existing section of that name is returned as it is,
\* a new one is appended to the section list
NewSection(cfg, name) ==
    IF HasSection(cfg, name) THEN cfg
    ELSE Append(cfg, [name |-> name, keys |-> <<>>])

\* A section removal that leaves the section where it is
DeleteSectionKeeps(cfg, name) ==
    cfg

\* File.DeleteSection
DeleteSection(cfg, name) ==
    SelectSeq(cfg, LAMBDA s : s.name # name)

KeyIndex(keys, k) ==
    LET hit == {i \in 1..Len(keys) : keys[i].name = k}
    IN  IF hit = {} THEN 0 ELSE Min(hit)

\* Section.HasKey
HasKey(sec, k) ==
    KeyIndex(sec.keys, k) # 0

\* Section.Key(k).String()
KeyString(sec, k) ==
    IF HasKey(sec, k) THEN sec.keys[KeyIndex(sec.keys, k)].value ELSE <<>>

\* Section.NewKey on the key list: an existing key gets the new value in
\* place, a new key is appended
SetKey(keys, k, v) ==
    IF KeyIndex(keys, k) # 0
    THEN [keys EXCEPT ![KeyIndex(keys, k)].value = v]
    ELSE Append(keys, [name |-> k, value |-> v])

\* Section.NewKey for the section called sname of cfg
NewKey(cfg, sname, k, v) ==
    [cfg EXCEPT ![SecIndex(cfg, sname)].keys = SetKey(@, k, v)]

\* parser.readValue with the default load options: a value opened by a
\* backquote runs to the last backquote of the line; otherwise the text from
\* the first "#" or ";" on is an inline comment and is dropped.  A backquoted
\* value that is not closed on its line is reported as a load error.
readValue(in) ==
    LET line == TrimLeftSpace(in)
    IN  IF Len(line) = 0 THEN [ok |-> TRUE, value |-> <<>>]
        ELSE IF line[1] = BackQuote
        THEN LET rest == SubSeq(line, 2, Len(line))
                 pos  == LastIndexByte(rest, BackQuote)
             IN  IF pos = 0 THEN [ok |-> FALSE, value |-> <<>>]
                 ELSE [ok |-> TRUE, value |-> SubSeq(rest, 1, pos - 1)]
        ELSE LET t == TrimSpace(line)
                 i == IndexAny(t, {"#", ";"})
             IN  [ok |-> TRUE,
                  value |-> IF i > 0 THEN TrimSpace(SubSeq(t, 1, i - 1)) ELSE t]

\* The text of a value as it stands in the file, uninterpreted
textValue(in) ==
    [ok |-> TRUE, value |-> TrimSpace(in)]

\* File.parse, one line: blank lines and comment lines are skipped, "[name]"
\* opens (or reopens) a section, "key = value" (delimiters "=" and ":") sets
\* a key of the current section, anything else is an error.  The text after
\* the delimiter is read by readValue, as ini.Load does, or, with asText,
\* taken as it stands.
parseLine(st, raw, asText) ==
    LET line == TrimLeftSpace(raw)
    IN  IF ~st.ok \/ Len(line) = 0 \/ line[1] \in {"#", ";"} THEN st
        ELSE IF line[1] = "["
        THEN LET closeIdx == LastIndexByte(line, "]")
                 name     == SubSeq(line, 2, closeIdx - 1)
             IN  IF closeIdx = 0 \/ Len(name) = 0
                 THEN [st EXCEPT !.ok = FALSE]
                 ELSE [st EXCEPT !.cfg = NewSection(st.cfg, name), !.cur = name]
        ELSE LET endIdx == IndexAny(line, {"=", ":"})
                 kname  == TrimSpace(SubSeq(line, 1, endIdx - 1))
                 rest   == SubSeq(line, endIdx + 1, Len(line))
                 val    == IF asText THEN textValue(rest) ELSE readValue(rest)
             IN  IF endIdx <= 1 \/ Len(kname) = 0 \/ ~val.ok
                 THEN [st EXCEPT !.ok = FALSE]
                 ELSE [st EXCEPT !.cfg = NewKey(st.cfg, st.cur, kname, val.value)]

RECURSIVE parseFrom(_, _, _)
parseFrom(st, lines, i) ==
    IF i > Len(lines) THEN st
    ELSE parseFrom(parseLine(st, lines[i], FALSE), lines, i + 1)

\* File.parse over the lines of a file
parse(lines) ==
    parseFrom([ok |-> TRUE, cfg |-> IniEmpty, cur |-> DefaultSection], lines, 1)

RECURSIVE textFrom(_, _, _)
textFrom(st, lines, i) ==
    IF i > Len(lines) THEN st
    ELSE textFrom(parseLine(st, lines[i], TRUE), lines, i + 1)

\* The sections and key/value texts of a file as they stand in it, without
\* the ini library's reading of quotes and inline comments
FileText(lines) ==
    textFrom([ok |-> TRUE, cfg |-> IniEmpty, cur |-> DefaultSection], lines, 1).cfg

\* ini.Load of a file: a missing file, like an unparsable one, is an error
Load(file) ==
    IF ~file.exists THEN [ok |-> FALSE, cfg |-> IniEmpty]
    ELSE LET st == parse(file.lines) IN [ok |-> st.ok, cfg |-> st.cfg]

(***************************************************************************)
(* Files                                                                   *)
(***************************************************************************)

NoFile ==
    [exists |-> FALSE, lines |-> <<>>]

FileOf(ls) ==
    [exists |-> TRUE, lines |-> ls]

\* filepath.Join(homeDir, ".aws", "config")
ConfigPath ==
    [dir |-> "~/.aws", base |-> "config"]

\* filepath.Dir
Dir(path) ==
    path.dir

\* A writer that opens the store itself instead of a temporary file
TempPathInPlace(configPath) ==
    configPath

\* os.CreateTemp(filepath.Dir(configPath), ".aws-config-temp-"): the path of
\* the temporary file writeConfigWithoutEscaping creates for configPath
TempPathFor(configPath) ==
    [dir |-> Dir(configPath), base |-> ".aws-config-temp-*"]

\* The paths the model tracks: the store, and a temporary file next to it or
\* in the system temporary directory.
Paths ==
    {ConfigPath,
     [dir |-> "~/.aws", base |-> ".aws-config-temp-*"],
     [dir |-> "/tmp", base |-> ".aws-config-temp-*"]}

(***************************************************************************)
(* writeConfigWithoutEscaping: the text it writes                          *)
(***************************************************************************)

\* sort.Slice(keys, by Name): key names are unique within a section
SortKeys(keys) ==
    SortSeq(keys, LAMBDA a, b : LexLess(a.name, b.name))

\* fmt.Fprintf(tempFile, "%s = %s\n", key.Name(), value): the value is
\* written as it is, without quoting or escaping
KeyLine(k) ==
    k.name \o <<" ", "=", " ">> \o k.value

\* The writes for one section: the header (none for DEFAULT), the keys in
\* sorted order, a blank line
SectionLines(sec) ==
    LET keys == SortKeys(sec.keys)
    IN  (IF sec.name # DefaultSection
         THEN << <<"[">> \o sec.name \o <<"]">> >> ELSE <<>>)
        \o [i \in 1..Len(keys) |-> KeyLine(keys[i])]
        \o << <<>> >>

RECURSIVE ConfigLinesFrom(_, _)
ConfigLinesFrom(cfg, i) ==
    IF i > Len(cfg) THEN <<>>
    ELSE SectionLines(cfg[i]) \o ConfigLinesFrom(cfg, i + 1)

\* All the lines writeConfigWithoutEscaping writes for cfg, in order
ConfigLines(cfg) ==
    ConfigLinesFrom(cfg, 1)

(***************************************************************************)
(* Token cache resolver                                                    *)
(***************************************************************************)

\* readTokenFromCache for one cache artifact at time now
readTokenFromCache(art, startURL, now) ==
    IF ~art.parsable THEN [err |-> "parse", token |-> <<>>]
    ELSE IF art.StartURL # startURL THEN [err |-> "mismatch", token |-> <<>>]
    ELSE IF now > art.ExpiresAt THEN [err |-> "expired", token |-> <<>>]
    ELSE [err |-> "", token |-> art.AccessToken]

\* getSSOAccessToken: the first ".json" artifact, in directory order, that
\* readTokenFromCache accepts with a non-empty token
getSSOAccessToken(cacheDir, startURL, now) ==
    LET entries == cacheDir.entries
        good == {i \in 1..Len(entries) :
                    /\ entries[i].json
                    /\ readTokenFromCache(entries[i], startURL, now).err = ""
                    /\ readTokenFromCache(entries[i], startURL, now).token # <<>>}
    IN  IF ~cacheDir.readable
        THEN [err |-> "failed to read SSO cache directory", token |-> <<>>]
        ELSE IF good = {}
        THEN [err |-> "no valid SSO token found", token |-> <<>>]
        ELSE [err |-> "", token |-> entries[Min(good)].AccessToken]


(***************************************************************************)
(* Account/role enumerator                                                 *)
(***************************************************************************)

RECURSIVE Flatten(_)
Flatten(ss) ==
    IF ss = <<>> THEN <<>> ELSE Head(ss) \o Flatten(Tail(ss))

RECURSIVE Perms(_)
Perms(S) ==
    IF S = {} THEN {<<>>}
    ELSE UNION {{<<x>> \o p : p \in Perms(S \ {x})} : x \in S}

\* The AccountRole values of one account: one per role of each role page
AccountRolesOf(account) ==
    LET roles == Flatten(account.rolePages)
    IN  [i \in 1..Len(roles) |->
            [AccountID    |-> account.AccountId,
             AccountName  |-> account.AccountName,
             RoleName     |-> roles[i],
             EmailAddress |-> account.EmailAddress]]

\* The list as collected, before sorting: accounts in page order, and for
\* each account its roles in page order
CollectAccountRoles(dir) ==
    LET accounts == Flatten(dir.accountPages)
    IN  Flatten([i \in 1..Len(accounts) |-> AccountRolesOf(accounts[i])])

\* A less function that looks at the account name only
AccountRoleLessByAccount(a, b) ==
    LexLess(a.AccountName, b.AccountName)

\* The less function given to sort.Slice
AccountRoleLess(a, b) ==
    IF a.AccountName = b.AccountName
    THEN LexLess(a.RoleName, b.RoleName)
    ELSE LexLess(a.AccountName, b.AccountName)

\* sort.Slice is not stable: every arrangement of the list that is ordered
\* by the less function is a possible result
SortSlice(list) ==
    {[i \in 1..Len(list) |-> list[p[i]]] : p \in
        {q \in Perms(1..Len(list)) :
            \A i, j \in 1..Len(list) :
                i < j => ~AccountRoleLess(list[q[j]], list[q[i]])}}

\* listAccountRoles when every page request succeeds: the possible results
listAccountRoles(dir) ==
    SortSlice(CollectAccountRoles(dir))

(***************************************************************************)
(* Profile name synthesizer                                                *)
(***************************************************************************)

\* An identifier in which only spaces are replaced
accountIdentifierKeepsDots(ar) ==
    ToLower(ReplaceAll(IF ar.AccountName = <<>> THEN ar.AccountID
                       ELSE ar.AccountName, " ", "-"))

\* accountIdentifier: the account name, or the account ID when there is no
\* name, with "-" for every space and every ".", in lower case
accountIdentifier(ar) ==
    LET id0 == IF ar.AccountName = <<>> THEN ar.AccountID ELSE ar.AccountName
    IN  ToLower(ReplaceAll(ReplaceAll(id0, " ", "-"), ".", "-"))

\* A simplification that strips the prefix before it looks for the marker
roleNamePrefixFirst(ar) ==
    LET low == ToLower(ar.RoleName)
    IN  IF HasPrefix(low, V_itfrun_prefix)
        THEN TrimPrefix(low, V_itfrun_prefix)
        ELSE IF Contains(low, V_itfrun_operator) THEN V_operator
        ELSE low

\* roleName: the role name in lower case, "operator" when that contains
\* "itfrun-operator", else without its prefix "itfrun-" when it has it
roleName(ar) ==
    LET low == ToLower(ar.RoleName)
    IN  IF Contains(low, V_itfrun_operator) THEN V_operator
        ELSE IF HasPrefix(low, V_itfrun_prefix)
        THEN TrimPrefix(low, V_itfrun_prefix)
        ELSE low

\* profileName := fmt.Sprintf("%s-%s", accountIdentifier, roleName)
ProfileName(ar) ==
    accountIdentifier(ar) \o <<"-">> \o roleName(ar)

\* An entry that names the session and the start URL and region as well
ProfileConfigBothForms(ar, region, ssoStartURL, ssoRegion, ssoSessionName) ==
    (K_sso_session :> ssoSessionName)
    @@ (K_sso_start_url :> ssoStartURL)
    @@ (K_sso_region :> ssoRegion)
    @@ (K_sso_account_id :> ar.AccountID)
    @@ (K_sso_role_name :> ar.RoleName)
    @@ (K_region :> region)
    @@ (K_output :> V_json)

\* The key/value map generateProfilesFromAccountRoles gives one AccountRole
ProfileConfig(ar, region, ssoStartURL, ssoRegion, ssoSessionName) ==
    LET base == (K_sso_account_id :> ar.AccountID)
                @@ (K_sso_role_name :> ar.RoleName)
                @@ (K_region :> region)
                @@ (K_output :> V_json)
    IN  IF ssoSessionName # <<>>
        THEN (K_sso_session :> ssoSessionName) @@ base
        ELSE (K_sso_start_url :> ssoStartURL)
             @@ (K_sso_region :> ssoRegion) @@ base

RECURSIVE ProfilesFrom(_, _, _, _, _, _)
ProfilesFrom(accountRoles, i, region, ssoStartURL, ssoRegion, ssoSessionName) ==
    IF i = 0 THEN <<>>
    ELSE LET ar == accountRoles[i]
         IN  (ProfileName(ar) :>
                ProfileConfig(ar, region, ssoStartURL, ssoRegion, ssoSessionName))
             @@ ProfilesFrom(accountRoles, i - 1, region,
                             ssoStartURL, ssoRegion, ssoSessionName)


\* generateProfilesFromAccountRoles: later entries of the list overwrite
\* earlier ones of the same name; an empty region flag falls back to
\* eu-central-1
generateProfilesFromAccountRoles(accountRoles, ssoStartURL, ssoRegion, ssoSessionName, regionFlag) ==
    ProfilesFrom(accountRoles, Len(accountRoles),
                 IF regionFlag = <<>> THEN V_eu_central_1 ELSE regionFlag,
                 ssoStartURL, ssoRegion, ssoSessionName)

(***************************************************************************)
(* Config store merger: the in-memory part                                 *)
(***************************************************************************)

RECURSIVE SortStrings(_)
SortStrings(S) ==
    IF S = {} THEN <<>>
    ELSE LET m == CHOOSE x \in S : \A y \in S \ {x} : LexLess(x, y)
         IN  <<m>> \o SortStrings(S \ {m})

Reverse(s) ==
    [i \in 1..Len(s) |-> s[Len(s) + 1 - i]]

RECURSIVE AddKeys(_, _, _, _, _)
AddKeys(cfg, sname, m, korder, i) ==
    IF i > Len(korder) THEN cfg
    ELSE AddKeys(NewKey(cfg, sname, korder[i], m[korder[i]]),
                 sname, m, korder, i + 1)

\* One iteration of the loop of writeProfilesToConfig: the section is
\* deleted, created again at the end of the section list, and filled
ReplaceProfile(cfg, profileName, profileConfig, korder) ==
    LET sectionName == ProfilePrefix \o profileName
    IN  AddKeys(NewSection(DeleteSection(cfg, sectionName), sectionName),
                sectionName, profileConfig, korder, 1)

\* The loop of writeProfilesToConfig over the profile map, visiting the
\* profiles in the given order.  The keys of each profile are inserted in
\* ascending or (rev) descending order: Go leaves the order of a range over
\* a map unspecified, and the writer sorts the keys of every section, so
\* the file does not depend on it.
RECURSIVE ReplaceProfiles(_, _, _, _, _)
ReplaceProfiles(cfg, profiles, order, rev, i) ==
    IF i > Len(order) THEN cfg
    ELSE LET m  == profiles[order[i]]
             ko == IF rev THEN Reverse(SortStrings(DOMAIN m))
                   ELSE SortStrings(DOMAIN m)
         IN  ReplaceProfiles(ReplaceProfile(cfg, order[i], m, ko),
                             profiles, order, rev, i + 1)

\* The minimal configuration generateProfiles builds when --sso-start-url is
\* given and the store does not exist
MinimalConfig(url, region) ==
    LET ssoSec  == SsoSessionPrefix \o DefaultSSOName
        baseSec == ProfilePrefix \o DefaultSSOName
        c1 == NewSection(IniEmpty, ssoSec)
        c2 == NewKey(c1, ssoSec, K_sso_start_url, url)
        c3 == NewKey(c2, ssoSec, K_sso_region, region)
        c4 == NewKey(c3, ssoSec, K_sso_registration_scopes, V_scopes)
        c5 == NewSection(c4, baseSec)
        c6 == NewKey(c5, baseSec, K_sso_start_url, url)
        c7 == NewKey(c6, baseSec, K_sso_region, region)
        c8 == NewKey(c7, baseSec, K_sso_role_name, V_itfrun_operator)
        c9 == NewKey(c8, baseSec, K_region, region)
    IN  NewKey(c9, baseSec, K_output, V_json)

\* generateProfiles, --sso-start-url given and the store present: the first
\* section whose sso_start_url equals the URL gives the region and, when it
\* is an sso-session section, the session name
LookupByStartURL(cfg, url) ==
    LET hit == {i \in 1..Len(cfg) :
                   HasKey(cfg[i], K_sso_start_url)
                   /\ KeyString(cfg[i], K_sso_start_url) = url}
    IN  IF hit = {} THEN [region |-> <<>>, session |-> <<>>]
        ELSE LET sec == cfg[Min(hit)]
             IN  [region  |-> IF HasKey(sec, K_sso_region)
                              THEN KeyString(sec, K_sso_region) ELSE <<>>,
                  session |-> IF HasPrefix(sec.name, SsoSessionPrefix)
                              THEN TrimPrefix(sec.name, SsoSessionPrefix)
                              ELSE <<>>]

\* getSSOReuiredInfo on the loaded store
getSSOReuiredInfo(load) ==
    LET cfg  == load.cfg
        both == {i \in 1..Len(cfg) :
                    HasKey(cfg[i], K_sso_start_url) /\ HasKey(cfg[i], K_sso_region)}
        sess == {i \in both : HasPrefix(cfg[i].name, SsoSessionPrefix)}
        base == {i \in both : ~HasKey(cfg[i], K_sso_account_id)}
        withURL == {i \in both : KeyString(cfg[i], K_sso_start_url) # <<>>}
        pick(i, session) ==
            [err |-> "", startURL |-> KeyString(cfg[i], K_sso_start_url),
             region |-> KeyString(cfg[i], K_sso_region), session |-> session]
        none(e) ==
            [err |-> e, startURL |-> <<>>, region |-> <<>>, session |-> <<>>]
    IN  IF ~load.ok THEN none("failed to load AWS config file")
        ELSE IF sess # {}
        THEN pick(Min(sess), TrimPrefix(cfg[Min(sess)].name, SsoSessionPrefix))
        ELSE IF base # {} THEN pick(Min(base), <<>>)
        ELSE IF withURL # {}
                /\ KeyString(cfg[Min(withURL)], K_sso_region) # <<>>
        THEN pick(Min(withURL), <<>>)
        ELSE none("SSO configuration not found in ~/.aws/config")


(***************************************************************************)
(* Inputs of the model: stores, flags, token caches, directories           *)
(***************************************************************************)

URL_plain ==
    <<"u", "/", "s">>
URL_trailing ==
    <<"u", "/", "s", "#", "/">>
URL_fragment ==
    <<"u", "#", "/", "s">>
ID_12 ==
    <<"1", "2">>
ID_34 ==
    <<"3", "4">>
Name_TA ==
    <<"T", " ", "A">>
Name_Pb ==
    <<"P", ".", "b">>
Role_Adm ==
    <<"A", "d", "m">>
Role_RO ==
    <<"i", "t", "f", "r", "u", "n", "-", "R", "O">>
Tok ==
    <<"t", "o", "k">>

\* A store written by hand: a comment, a base SSO profile, and a profile
\* that a later run regenerates, with a key the tool does not write
HandWrittenLines ==
    <<<<"#", " ", "m", "y", " ", "c", "o", "n", "f", "i", "g">>,
      <<"[", "p", "r", "o", "f", "i", "l", "e", " ", "b", "a", "s", "e", "]">>,
      <<"s", "s", "o", "_", "s", "t", "a", "r", "t", "_", "u", "r", "l", " ", "=", " ", "u", "/", "s">>,
      <<"s", "s", "o", "_", "r", "e", "g", "i", "o", "n", " ", "=", " ", "e", "u", "-", "c", "e", "n", "t", "r", "a", "l", "-", "1">>,
      <<>>,
      <<"[", "p", "r", "o", "f", "i", "l", "e", " ", "t", "-", "a", "-", "a", "d", "m", "]">>,
      <<"s", "s", "o", "_", "a", "c", "c", "o", "u", "n", "t", "_", "i", "d", " ", "=", " ", "9", "9">>,
      <<"e", "x", "t", "r", "a", " ", "=", " ", "x">>>>

\* A store as the generate-config command leaves it: it saves with the ini
\* library, which puts a value containing "#" between backquotes
SaveToLines ==
    <<<<"[", "p", "r", "o", "f", "i", "l", "e", " ", "t", "-", "a", "-", "A", "d", "m", "]">>,
      <<"s", "s", "o", "_", "s", "t", "a", "r", "t", "_", "u", "r", "l", " ", "=", " ", BackQuote, "u", "/", "s", "#", "/", BackQuote>>,
      <<"s", "s", "o", "_", "r", "e", "g", "i", "o", "n", " ", "=", " ", "e", "u", "-", "c", "e", "n", "t", "r", "a", "l", "-", "1">>,
      <<"s", "s", "o", "_", "a", "c", "c", "o", "u", "n", "t", "_", "i", "d", " ", "=", " ", "1", "2">>,
      <<"s", "s", "o", "_", "r", "o", "l", "e", "_", "n", "a", "m", "e", " ", "=", " ", "A", "d", "m">>,
      <<"r", "e", "g", "i", "o", "n", " ", "=", " ", "e", "u", "-", "c", "e", "n", "t", "r", "a", "l", "-", "1">>,
      <<"o", "u", "t", "p", "u", "t", " ", "=", " ", "j", "s", "o", "n">>,
      <<>>>>

\* A store the ini library cannot load: a line without a key/value delimiter
BrokenLines ==
    <<<<"[", "p", "r", "o", "f", "i", "l", "e", " ", "x", "]">>,
      <<"o", "o", "p", "s">>>>

InitialStores ==
    {NoFile,
     FileOf(ConfigLines(MinimalConfig(URL_plain, V_eu_central_1))),
     FileOf(HandWrittenLines),
     FileOf(SaveToLines),
     FileOf(BrokenLines)}

StartURLFlags ==
    {<<>>, URL_plain, URL_trailing, URL_fragment}

Artifact(json, parsable, url, expiresAt, token) ==
    [json |-> json, parsable |-> parsable, StartURL |-> url,
     ExpiresAt |-> expiresAt, AccessToken |-> token]

\* Token caches: an empty one, and one that holds, after an unparsable and
\* an expired artifact, a usable token for every start URL of the model
TokenCaches ==
    {[readable |-> TRUE, entries |-> <<>>],
     [readable |-> TRUE, entries |->
        <<Artifact(TRUE, FALSE, <<>>, 0, <<>>),
          Artifact(TRUE, TRUE, URL_plain, 1, Tok),
          Artifact(TRUE, TRUE, URL_plain, 9, Tok),
          Artifact(TRUE, TRUE, URL_trailing, 9, Tok),
          Artifact(TRUE, TRUE, URL_fragment, 9, Tok)>>]}

\* Another access token
TokOther ==
    <<"k", "o", "t">>

\* How many entries the cache directory of a resolver call holds at most
MaxEntries ==
    2

\* The entries a cache directory can hold, for a call at time 5 that asks
\* for URL_plain: a file that is no ".json" file (with a usable token in
\* it), a ".json" file that does not parse, and the artifacts for the start
\* URL asked for and for another one, expiring before, at and after the
\* time of the call, with an empty access token or with one of two tokens
CacheEntries ==
    {Artifact(FALSE, TRUE, URL_plain, 6, Tok),
     Artifact(TRUE, FALSE, <<>>, 0, <<>>)}
        \cup {Artifact(TRUE, TRUE, url, expiresAt, token) :
                 url \in {URL_plain, URL_trailing},
                 expiresAt \in {4, 5, 6},
                 token \in {<<>>, Tok, TokOther}}

\* The cache directories of a resolver call: one that cannot be read, and
\* every sequence of at most MaxEntries entries
UnitCaches ==
    {[readable |-> FALSE, entries |-> <<>>]}
        \cup {[readable |-> TRUE, entries |-> e] :
                 e \in UNION {[1..n -> CacheEntries] : n \in 0..MaxEntries}}

Account(id, name, rolePages) ==
    [AccountId |-> id, AccountName |-> name, EmailAddress |-> <<>>,
     rolePages |-> rolePages]

\* Directories: no account, one account with one role, two accounts on two
\* pages
Directories ==
    {[accountPages |-> << <<>> >>],
     [accountPages |-> << <<Account(ID_12, Name_TA, << <<Role_Adm>> >>)>> >>],
     [accountPages |-> << <<Account(ID_12, Name_TA, << <<Role_Adm>> >>)>>,
                          <<Account(ID_34, Name_Pb, << <<Role_RO>> >>)>> >>]}


\* The directories of a call of listAccountRoles on its own: accounts on one
\* page or two, in either order, one of them with its roles on two pages
\* and out of order; for every account, requests for its roles succeed,
\* fail once (flaky) or fail every time (denied)
UnitDirectories ==
    LET a1 == Account(ID_12, Name_TA, << <<Role_RO>>, <<Role_Adm>> >>)
        a2 == Account(ID_34, Name_Pb, << <<Role_RO>> >>)
        a3 == Account(ID_34, Name_TA, << <<>> >>)
        pages == {<< <<>> >>, << <<a1>> >>, << <<a1, a2>> >>,
                  << <<a1>>, <<a2>> >>, << <<a2>>, <<a1>> >>,
                  << <<a1, a3>>, <<>> >>}
        ids == {ID_12, ID_34}
    IN  {[accountPages |-> ps, flaky |-> f, denied |-> d] :
            ps \in pages,
            f \in SUBSET ids,
            d \in {x \in SUBSET ids : Cardinality(x) <= 1}}

\* How many AccountRole values a call of generateProfilesFromAccountRoles
\* on its own is given at most
MaxAccountRoles ==
    2

Name_TestAccount ==
    <<"T", "e", "s", "t", " ", "A", "c", "c", "o", "u", "n", "t">>
Name_ProdAccount ==
    <<"P", "r", "o", "d", " ", "A", "c", "c", "o", "u", "n", "t">>
Role_AdminRole ==
    <<"A", "d", "m", "i", "n", "R", "o", "l", "e">>
Role_ReadOnlyRole ==
    <<"R", "e", "a", "d", "O", "n", "l", "y", "R", "o", "l", "e">>

\* Role names: plain, with the prefix in lower and in upper case, with the
\* marker at the start, in mixed case, and after other text
UnitRoleNames ==
    {Role_Adm, Role_RO,
     <<"I", "T", "F", "R", "U", "N", "-", "d", "e", "v">>,
     V_itfrun_operator \o <<"-", "x">>,
     <<"I", "T", "F", "R", "U", "N", "-", "O", "p", "e", "r", "a", "t", "o", "r">>,
     <<"x", "-">> \o V_itfrun_operator}

\* The AccountRole values of the model: accounts with a name (with a space,
\* with a ".", and one that differs from another only by that), accounts
\* without a name, and the two of TestGenerateProfilesFromAccountRoles
UnitAccountRoles ==
    {[AccountID |-> id, AccountName |-> name, RoleName |-> role,
      EmailAddress |-> <<>>] :
        id \in {ID_12}, name \in {Name_TA, Name_Pb, <<"t", ".", "a">>},
        role \in UnitRoleNames}
    \cup {[AccountID |-> id, AccountName |-> <<>>, RoleName |-> role,
           EmailAddress |-> <<>>] :
              id \in {ID_12, <<"3", ".", "4">>}, role \in UnitRoleNames}
    \cup {[AccountID |-> ID_12, AccountName |-> Name_TestAccount,
           RoleName |-> Role_AdminRole, EmailAddress |-> <<>>],
          [AccountID |-> ID_34, AccountName |-> Name_ProdAccount,
           RoleName |-> Role_ReadOnlyRole, EmailAddress |-> <<>>]}

\* How many AccountRole values a call of generateProfilesFromAccountRoles
\* that is made more than once is given at most, and how often it is made
MaxSynth ==
    2

MaxCalls ==
    2

AccountRole(id, name, role) ==
    [AccountID |-> id, AccountName |-> name, RoleName |-> role,
     EmailAddress |-> <<>>]

\* AccountRole values that come to the same profile name: two accounts
\* whose names differ by a "." and by case, two accounts of the same name,
\* and others that do not collide
SynthAccountRoles ==
    {AccountRole(ID_12, Name_TA, Role_Adm),
     AccountRole(ID_34, <<"t", ".", "a">>, Role_Adm),
     AccountRole(ID_34, Name_TA, Role_Adm),
     AccountRole(ID_12, Name_TA, Role_RO),
     AccountRole(ID_34, Name_Pb, Role_RO)}

\* What the two stores can hold around such a call
SynthStores ==
    {[p \in Paths |-> IF p = ConfigPath THEN f ELSE NoFile] :
        f \in {NoFile, FileOf(HandWrittenLines)}}

(***************************************************************************)
(* The use command: reading the selection                                  *)
(***************************************************************************)

\* bufio.Reader.ReadString(delim) on the bytes left on standard input: the
\* text up to and including the first delim, or everything there is together
\* with io.EOF when no delim comes
ReadString(in, delim) ==
    LET at == IndexAny(in, {delim})
    IN  IF at = 0
        THEN [line |-> in, err |-> "EOF"]
        ELSE [line |-> SubSeq(in, 1, at), err |-> ""]

IsDigit(c) ==
    c \in {"0", "1", "2", "3", "4", "5", "6", "7", "8", "9"}

RECURSIVE DigitsValue(_)
DigitsValue(s) ==
    IF s = <<>> THEN 0
    ELSE 10 * DigitsValue(SubSeq(s, 1, Len(s) - 1))
           + (CharRank(s[Len(s)]) - CharRank("0"))

\* strconv.Atoi: an optional sign and at least one decimal digit
Atoi(s) ==
    LET signed == s # <<>> /\ s[1] \in {"+", "-"}
        body   == IF signed THEN Tail(s) ELSE s
    IN  IF body = <<>> \/ \E i \in 1..Len(body) : ~IsDigit(body[i])
        THEN [ok |-> FALSE, value |-> 0]
        ELSE [ok |-> TRUE,
              value |-> IF signed /\ s[1] = "-" THEN 0 - DigitsValue(body)
                        ELSE DigitsValue(body)]

\* A selection that refuses the last listed cluster
selectBelowLast(input, clusterList) ==
    LET choice == Atoi(TrimSpace(input))
    IN  IF ~choice.ok \/ choice.value < 1
                      \/ choice.value > Len(clusterList) - 1
        THEN [ok |-> FALSE, selected |-> <<>>]
        ELSE [ok |-> TRUE, selected |-> clusterList[choice.value]]

\* useCmd.Run, from the line read to the cluster selected: TrimSpace, Atoi,
\* the range check and clusterList[choice-1] (Go indexes from 0, the
\* sequences here from 1)
selectByNumber(input, clusterList) ==
    LET choice == Atoi(TrimSpace(input))
    IN  IF ~choice.ok \/ choice.value < 1 \/ choice.value > Len(clusterList)
        THEN [ok |-> FALSE, selected |-> <<>>]
        ELSE [ok |-> TRUE, selected |-> clusterList[choice.value]]

(***************************************************************************)
(* The use command: clusters and the kubeconfig store                      *)
(***************************************************************************)

\* A map with the entry for k set to v
Put(m, k, v) ==
    [x \in (DOMAIN m) \cup {k} |-> IF x = k THEN v ELSE m[x]]

\* api.NewConfig(): no clusters, credentials or contexts, no current context
NewConfig ==
    [Clusters |-> <<>>, AuthInfos |-> <<>>, Contexts |-> <<>>,
     CurrentContext |-> <<>>]

\* api.NewCluster()
NewCluster ==
    [Server |-> <<>>, CertificateAuthorityData |-> <<>>, ProxyURL |-> <<>>]

\* api.NewAuthInfo()
NewAuthInfo ==
    [Exec |-> [Command |-> <<>>, Args |-> <<>>, Env |-> <<>>],
     Token |-> <<>>]

\* api.NewContext()
NewContext ==
    [Cluster |-> <<>>, AuthInfo |-> <<>>, Namespace |-> <<>>]

\* The entry of a map of pointers, or a fresh one when the map has none
EntryOr(m, k, fresh) ==
    IF k \in DOMAIN m THEN m[k] ELSE fresh

AzureUser ==
    <<"a", "z", "u", "r", "e", "-", "u", "s", "e", "r">>

EntraidPrefix ==
    <<"e", "n", "t", "r", "a", "i", "d", "-">>

ArnPrefix ==
    <<"a", "r", "n", ":">>

\* getAzureConfig
getAzureConfig(dev) ==
    IF dev
    THEN [ServerID |-> "6dae42f8-4368-4678-94ff-3960e28e3630",
          ClientID |-> "6dae42f8-4368-4678-94ff-3960e28e3630",
          TenantID |-> "f8cdef31-a31e-4b4a-93e4-5f571e91255a"]
    ELSE [ServerID |-> "92996fd8-8fc1-4676-ab8f-63a70ebf20dd",
          ClientID |-> "92996fd8-8fc1-4676-ab8f-63a70ebf20dd",
          TenantID |-> "fa4a04c1-369d-4205-9eb1-84f8de4b3248"]

\* The ClusterInfo a provider returns for a cluster whose endpoint is
\* endpoint at the time of the call
ClusterInfoOf(profile, clusterName, region, endpoint) ==
    [Name |-> clusterName,
     Endpoint |-> endpoint,
     CertificateData |-> <<"c", "a">>,
     Region |-> region,
     Arn |-> ArnPrefix \o clusterName,
     AuthCommand |-> "aws",
     AuthArgs |-> <<"eks", "get-token", "--cluster-name", clusterName,
                    "--region", region>>,
     AuthEnv |-> [k \in {"AWS_PROFILE"} |-> profile]]

\* An update that files the cluster entry under its endpoint
createOrUpdateByEndpoint(config, profile, clusterInfo) ==
    LET clusterConfig ==
            [EntryOr(config.Clusters, clusterInfo.Endpoint, NewCluster)
                EXCEPT !.Server = clusterInfo.Endpoint,
                       !.CertificateAuthorityData =
                            clusterInfo.CertificateData]
        authInfo ==
            [EntryOr(config.AuthInfos, clusterInfo.Arn, NewAuthInfo)
                EXCEPT !.Exec = [Command |-> clusterInfo.AuthCommand,
                                 Args |-> clusterInfo.AuthArgs,
                                 Env |-> clusterInfo.AuthEnv]]
        context ==
            [EntryOr(config.Contexts, clusterInfo.Name, NewContext)
                EXCEPT !.Cluster = clusterInfo.Arn,
                       !.AuthInfo = clusterInfo.Arn]
    IN  [Clusters |-> Put(config.Clusters, clusterInfo.Endpoint,
                          clusterConfig),
         AuthInfos |-> Put(config.AuthInfos, clusterInfo.Arn, authInfo),
         Contexts |-> Put(config.Contexts, clusterInfo.Name, context),
         CurrentContext |-> clusterInfo.Name]

\* An update that builds the configuration anew, with the entries of the
\* cluster alone
createOrUpdateKubeContextFresh(config, profile, clusterInfo) ==
    [Clusters |-> Put(<<>>, clusterInfo.Arn,
                      [NewCluster EXCEPT
                          !.Server = clusterInfo.Endpoint,
                          !.CertificateAuthorityData =
                               clusterInfo.CertificateData]),
     AuthInfos |-> Put(<<>>, clusterInfo.Arn,
                       [NewAuthInfo EXCEPT
                           !.Exec = [Command |-> clusterInfo.AuthCommand,
                                     Args |-> clusterInfo.AuthArgs,
                                     Env |-> clusterInfo.AuthEnv]]),
     Contexts |-> Put(<<>>, clusterInfo.Name,
                      [NewContext EXCEPT !.Cluster = clusterInfo.Arn,
                                         !.AuthInfo = clusterInfo.Arn]),
     CurrentContext |-> clusterInfo.Name]

\* createOrUpdateKubeContext, from the configuration loaded to the one handed
\* to clientcmd.ModifyConfig: the cluster and the credential are filed under
\* the Arn, the context under the Name, fields the code does not set keep
\* the value of the entry that was there, and the context becomes current
createOrUpdateKubeContext(config, profile, clusterInfo) ==
    LET clusterConfig ==
            [EntryOr(config.Clusters, clusterInfo.Arn, NewCluster)
                EXCEPT !.Server = clusterInfo.Endpoint,
                       !.CertificateAuthorityData =
                            clusterInfo.CertificateData]
        authInfo ==
            [EntryOr(config.AuthInfos, clusterInfo.Arn, NewAuthInfo)
                EXCEPT !.Exec = [Command |-> clusterInfo.AuthCommand,
                                 Args |-> clusterInfo.AuthArgs,
                                 Env |-> clusterInfo.AuthEnv]]
        context ==
            [EntryOr(config.Contexts, clusterInfo.Name, NewContext)
                EXCEPT !.Cluster = clusterInfo.Arn,
                       !.AuthInfo = clusterInfo.Arn]
    IN  [Clusters |-> Put(config.Clusters, clusterInfo.Arn, clusterConfig),
         AuthInfos |-> Put(config.AuthInfos, clusterInfo.Arn, authInfo),
         Contexts |-> Put(config.Contexts, clusterInfo.Name, context),
         CurrentContext |-> clusterInfo.Name]

\* addAzureUser, from the configuration loaded to the one handed to
\* clientcmd.ModifyConfig
addAzureUser(config, dev) ==
    LET azureConfig == getAzureConfig(dev)
        authInfo ==
            [EntryOr(config.AuthInfos, AzureUser, NewAuthInfo)
                EXCEPT !.Exec =
                    [Command |-> "kubelogin",
                     Args |-> <<"get-token",
                                "--environment", "AzurePublicCloud",
                                "--server-id", azureConfig.ServerID,
                                "--client-id", azureConfig.ClientID,
                                "--tenant-id", azureConfig.TenantID>>,
                     Env |-> <<>>]]
    IN  [config EXCEPT !.AuthInfos = Put(config.AuthInfos, AzureUser,
                                         authInfo)]

\* An overlay that also makes the secondary context the current one
addAzureContextAndSwitch(config, cluster) ==
    LET contextName == EntraidPrefix \o cluster
    IN  [config EXCEPT
            !.Contexts = Put(config.Contexts, contextName,
                             [EntryOr(config.Contexts, contextName,
                                      NewContext)
                                 EXCEPT !.Cluster = ArnPrefix \o cluster,
                                        !.AuthInfo = AzureUser]),
            !.CurrentContext = contextName]

\* An overlay that always files the secondary context under the cluster name
addAzureContextByName(config, cluster) ==
    LET contextName == EntraidPrefix \o cluster
    IN  [config EXCEPT
            !.Contexts = Put(config.Contexts, contextName,
                             [EntryOr(config.Contexts, contextName,
                                      NewContext)
                                 EXCEPT !.Cluster = cluster,
                                        !.AuthInfo = AzureUser])]

\* addAzureContext, from the configuration loaded to the one handed to
\* clientcmd.ModifyConfig: the cluster key is taken from the context named
\* after the cluster, with the cluster name standing in when that context is
\* missing or names no cluster
addAzureContext(config, cluster) ==
    LET found == IF cluster \in DOMAIN config.Contexts
                 THEN config.Contexts[cluster].Cluster
                 ELSE cluster
        clusterArn == IF found = <<>> THEN cluster ELSE found
        contextName == EntraidPrefix \o cluster
        context ==
            [EntryOr(config.Contexts, contextName, NewContext)
                EXCEPT !.Cluster = clusterArn, !.AuthInfo = AzureUser]
    IN  [config EXCEPT !.Contexts = Put(config.Contexts, contextName,
                                        context)]

\* A lookup of the cluster key that falls back without a word
addAzureContextSilent(config, cluster) ==
    <<>>

\* The warnings addAzureContext prints while it looks for the cluster key
addAzureContextWarnings(config, cluster) ==
    LET found == IF cluster \in DOMAIN config.Contexts
                 THEN config.Contexts[cluster].Cluster
                 ELSE cluster
    IN  (IF cluster \in DOMAIN config.Contexts THEN <<>>
         ELSE <<"Warning: Could not find existing context, using cluster name as fallback">>)
        \o (IF found = <<>>
            THEN <<"Warning: Empty cluster ARN, using cluster name as fallback">>
            ELSE <<>>)

\* The kubeconfig file: absent, not parsable, or holding a configuration
KubeAbsent ==
    [state |-> "absent", config |-> NewConfig]

KubeMalformed ==
    [state |-> "malformed", config |-> NewConfig]

KubeOf(config) ==
    [state |-> "valid", config |-> config]

\* ClientConfigLoadingRules.Load() with the kubeconfig path as its only
\* file: a missing file is skipped and gives the empty configuration, a file
\* that does not parse gives an error
LoadKubeconfig(store) ==
    IF store.state = "malformed"
    THEN [err |-> "failed to load kubeconfig", config |-> NewConfig]
    ELSE [err |-> "", config |-> store.config]

(***************************************************************************)
(* The use command: inputs                                                 *)
(***************************************************************************)

Profile ==
    <<"d", "e", "v">>

Region_eu ==
    <<"e", "u">>

Cluster_c1 ==
    <<"c", "1">>

Cluster_c2 ==
    <<"c", "2">>

\* A cluster whose name is the secondary context name of Cluster_c1
Cluster_entraid_c1 ==
    EntraidPrefix \o Cluster_c1

\* The hosts a cluster may be served from at the time it is described
Endpoints ==
    {<<"e", "1">>, <<"e", "2">>}

\* The endpoints a cluster may report: no two clusters share one
EndpointsOf(clusterName) ==
    {e \o <<"/">> \o clusterName : e \in Endpoints}

\* What the cluster provider answers: the region of the profile and the
\* clusters of the account, in listed order
Providers ==
    {[region |-> <<>>, clusters |-> <<Cluster_c1>>]}
        \cup {[region |-> Region_eu, clusters |-> l] :
                l \in {<<>>, <<Cluster_c1>>, <<Cluster_c1, Cluster_c2>>,
                       <<Cluster_entraid_c1, Cluster_c1>>}}

\* What is on standard input when the selection is read
StdinInputs ==
    {<<"1", "LF">>, <<"2", "LF">>, <<" ", "2", " ", "CR", "LF">>,
     <<"+", "1", "LF">>, <<"0", "LF">>, <<"3", "LF">>, <<"-", "1", "LF">>,
     <<"x", "LF">>, <<"LF">>, <<"2">>, <<>>}

\* A kubeconfig written by somebody else
ForeignConfig ==
    [Clusters |-> [k \in {<<"o">>} |->
                     [NewCluster EXCEPT !.Server = <<"e", "0">>]],
     AuthInfos |-> [k \in {<<"o">>} |->
                      [NewAuthInfo EXCEPT !.Token = <<"t">>]],
     Contexts |-> [k \in {<<"o">>} |->
                     [Cluster |-> <<"o">>, AuthInfo |-> <<"o">>,
                      Namespace |-> <<>>]],
     CurrentContext |-> <<"o">>]

\* A kubeconfig in which Cluster_c1 was set up earlier, at an endpoint it
\* has left since, and given a namespace and a proxy by hand
EarlierConfig ==
    LET info == ClusterInfoOf(Profile, Cluster_c1, Region_eu, <<"e", "0">>)
        made == createOrUpdateKubeContext(ForeignConfig, Profile, info)
    IN  [made EXCEPT
            !.Clusters[info.Arn].ProxyURL = <<"p">>,
            !.Contexts[info.Name].Namespace = <<"n", "s">>,
            !.CurrentContext = <<"o">>]

InitialKubes ==
    {KubeAbsent, KubeMalformed, KubeOf(ForeignConfig), KubeOf(EarlierConfig)}

(***************************************************************************)
(* State                                                                   *)
(***************************************************************************)

VARIABLES
    fs,               \* the files: path -> [exists, lines]
    dryRun,           \* --dry-run
    ssoStartURLFlag,  \* --sso-start-url
    defaultRegion,    \* --region
    cacheDir,         \* ~/.aws/sso/cache
    now,              \* time.Now()
    directory,        \* the SSO account/role directory
    gen,              \* generateProfiles: control point and locals
    w,                \* writeConfigWithoutEscaping: control point and locals
    runs,             \* invocations of generate-profiles started so far
    hist,             \* the store and outcome at the end of each earlier run
    kube,             \* the kubeconfig store ~/.kube/config
    devFlag,          \* --dev
    provider,         \* what the cluster provider answers
    stdin,            \* the bytes on standard input
    use,              \* useCmd.Run: control point, locals and output
    switches,         \* invocations of use started so far
    klog,             \* the ClusterInfo of every kubeconfig update that succeeded
    unit              \* one call of a function of the program on its own:
                      \* its arguments, control point and result

genVars ==
    <<fs, dryRun, ssoStartURLFlag, defaultRegion, cacheDir, now, directory,
      gen, w, runs, hist>>

useVars ==
    <<kube, devFlag, provider, stdin, use, switches, klog>>

unitVars ==
    <<unit>>

vars ==
    <<genVars, useVars, unitVars>>

\* How many times generate-profiles is invoked in a row
MaxRuns ==
    2

\* How many times use is invoked in a row
MaxSwitches ==
    2

GenIdle ==
    [pc |-> "idle", ssoStartURL |-> <<>>, ssoRegion |-> <<>>,
     ssoSessionName |-> <<>>, accountRoles |-> <<>>, profiles |-> <<>>,
     wrote |-> FALSE, err |-> "", calls |-> <<>>, writeFailed |-> FALSE,
     store |-> [p \in Paths |-> NoFile], rewrites |-> 0]

WIdle ==
    [pc |-> "none", cfg |-> IniEmpty, lines |-> <<>>, n |-> 0,
     prior |-> NoFile, temp |-> ConfigPath, ret |-> "", err |-> ""]

UseIdle ==
    [pc |-> "idle", region |-> <<>>, clusterList |-> <<>>, line |-> <<>>,
     readErr |-> "", prompted |-> FALSE, selected |-> <<>>,
     clusterInfo |-> ClusterInfoOf(<<>>, <<>>, <<>>, <<>>),
     out |-> <<>>, infoCalls |-> 0, before |-> KubeAbsent, calls |-> <<>>,
     rewrites |-> 0]

\* No function is called on its own
UnitIdle ==
    [pc |-> "none"]

\* The use command at rest, for the runs of generate-profiles
UseParked ==
    /\ kube = KubeAbsent
    /\ devFlag = FALSE
    /\ provider = [region |-> <<>>, clusters |-> <<>>]
    /\ stdin = <<>>
    /\ use = UseIdle
    /\ switches = 1
    /\ klog = <<>>

UseInit ==
    /\ kube \in InitialKubes
    /\ devFlag \in BOOLEAN
    /\ provider \in Providers
    /\ stdin \in StdinInputs
    /\ use = UseIdle
    /\ switches = 1
    /\ klog = <<>>

GenInit ==
    /\ fs \in {[p \in Paths |-> IF p = ConfigPath THEN f ELSE NoFile] :
                  f \in InitialStores}
    /\ dryRun \in BOOLEAN
    /\ ssoStartURLFlag \in StartURLFlags
    /\ defaultRegion = V_eu_central_1
    /\ cacheDir \in TokenCaches
    /\ now = 5
    /\ directory \in Directories
    /\ gen = [GenIdle EXCEPT !.store = fs]
    /\ w = WIdle
    /\ runs = 1
    /\ hist = <<>>

\* generate-profiles at rest, for the runs of use
GenParked ==
    /\ fs = [p \in Paths |-> NoFile]
    /\ dryRun = FALSE
    /\ ssoStartURLFlag = <<>>
    /\ defaultRegion = V_eu_central_1
    /\ cacheDir = [readable |-> TRUE, entries |-> <<>>]
    /\ now = 5
    /\ directory = [accountPages |-> << <<>> >>]
    /\ gen = GenIdle
    /\ w = WIdle
    /\ runs = 1
    /\ hist = <<>>

(***************************************************************************)
(* generateProfiles                                                        *)
(***************************************************************************)

\* return of generateProfiles
GenReturn(err) ==
    [gen EXCEPT !.pc = "done", !.err = err]

\* The call writeConfigWithoutEscaping(cfg, ConfigPath), before its first
\* step
StartWriter(cfg, ret) ==
    [pc |-> "create", cfg |-> cfg, lines |-> ConfigLines(cfg), n |-> 0,
     prior |-> fs[ConfigPath], temp |-> TempPathFor(ConfigPath),
     ret |-> ret, err |-> ""]

\* The return for a store that is absent when no --sso-start-url is given,
\* replaced by going on to the token lookup
NoConfigNoFlagGoesOn ==
    [gen EXCEPT !.pc = "token"]

\* The return for a store that is absent when no --sso-start-url is given
NoConfigNoFlag ==
    GenReturn("No AWS config file found and --sso-start-url not provided")

\* generateProfiles up to the token lookup: the SDK configuration is loaded,
\* then the SSO start URL, region and session name are taken from the flag
\* and the store.  With the flag given and no store, a minimal store is
\* written first (whatever --dry-run says).
GenerateProfilesBegin ==
    /\ gen.pc = "idle"
    /\ \E sdkOk \in BOOLEAN :
        IF ~sdkOk
        THEN gen' = GenReturn("failed to load AWS config") /\ w' = w
        ELSE IF ssoStartURLFlag # <<>>
        THEN LET url == TrimRight(ssoStartURLFlag, {"#", "/"})
             IN  IF ~fs[ConfigPath].exists
                 THEN /\ gen' = [gen EXCEPT !.pc = "minimal",
                                            !.ssoStartURL = url,
                                            !.ssoRegion = defaultRegion,
                                            !.ssoSessionName = DefaultSSOName]
                      /\ w' = StartWriter(MinimalConfig(url, defaultRegion),
                                          "minimal")
                 ELSE LET ld == Load(fs[ConfigPath])
                          lk == IF ld.ok THEN LookupByStartURL(ld.cfg, url)
                                ELSE [region |-> <<>>, session |-> <<>>]
                      IN  /\ gen' = [gen EXCEPT
                                 !.pc = "token",
                                 !.ssoStartURL = url,
                                 !.ssoRegion = IF lk.region = <<>>
                                               THEN defaultRegion ELSE lk.region,
                                 !.ssoSessionName = lk.session]
                          /\ w' = w
        ELSE IF ~fs[ConfigPath].exists
        THEN /\ gen' = NoConfigNoFlag
             /\ w' = w
        ELSE LET info == getSSOReuiredInfo(Load(fs[ConfigPath]))
             IN  /\ gen' = IF info.err # ""
                           THEN GenReturn("failed to get SSO configuration from config file")
                           ELSE [gen EXCEPT !.pc = "token",
                                            !.ssoStartURL = info.startURL,
                                            !.ssoRegion = info.region,
                                            !.ssoSessionName = info.session]
                 /\ w' = w
    /\ UNCHANGED <<fs, dryRun, ssoStartURLFlag, defaultRegion, cacheDir, now,
                   directory, runs, hist>>
    /\ UNCHANGED useVars
    /\ UNCHANGED unitVars

\* A token lookup whose failure is not returned: the run goes on to the
\* directory
GetTokenGoesOn ==
    /\ gen.pc = "token"
    /\ gen' = [gen EXCEPT !.pc = "list",
                          !.calls = Append(gen.calls, "getSSOAccessToken")]
    /\ UNCHANGED <<fs, dryRun, ssoStartURLFlag, defaultRegion, cacheDir, now,
                   directory, w, runs, hist>>
    /\ UNCHANGED useVars
    /\ UNCHANGED unitVars

\* accessToken, err := getSSOAccessToken(ctx, ssoStartURL, ssoRegion)
GetToken ==
    /\ gen.pc = "token"
    /\ gen' = [(IF getSSOAccessToken(cacheDir, gen.ssoStartURL, now).err # ""
                THEN GenReturn("failed to get SSO access token; please login to AWS SSO")
                ELSE [gen EXCEPT !.pc = "list"])
                  EXCEPT !.calls = Append(gen.calls, "getSSOAccessToken")]
    /\ UNCHANGED <<fs, dryRun, ssoStartURLFlag, defaultRegion, cacheDir, now,
                   directory, w, runs, hist>>
    /\ UNCHANGED useVars
    /\ UNCHANGED unitVars

\* accountRoles, err := listAccountRoles(...); an empty list ends the run
ListRoles ==
    /\ gen.pc = "list"
    /\ \E r \in {GenReturn("failed to list account roles")}
                 \cup {IF Len(ars) = 0 THEN GenReturn("")
                       ELSE [gen EXCEPT !.pc = "generate",
                                        !.accountRoles = ars] :
                          ars \in listAccountRoles(directory)} :
          gen' = [r EXCEPT !.calls = Append(gen.calls, "listAccountRoles")]
    /\ UNCHANGED <<fs, dryRun, ssoStartURLFlag, defaultRegion, cacheDir, now,
                   directory, w, runs, hist>>
    /\ UNCHANGED useVars
    /\ UNCHANGED unitVars

\* profiles := generateProfilesFromAccountRoles(...); a dry run prints them
\* and returns
GenerateFromRoles ==
    /\ gen.pc = "generate"
    /\ LET profiles == generateProfilesFromAccountRoles(gen.accountRoles,
                           gen.ssoStartURL, gen.ssoRegion, gen.ssoSessionName,
                           defaultRegion)
       IN  gen' = IF dryRun
                  THEN [GenReturn("") EXCEPT !.profiles = profiles]
                  ELSE [gen EXCEPT !.pc = "write", !.profiles = profiles]
    /\ UNCHANGED <<fs, dryRun, ssoStartURLFlag, defaultRegion, cacheDir, now,
                   directory, w, runs, hist>>
    /\ UNCHANGED useVars
    /\ UNCHANGED unitVars

\* The configuration writeProfilesToConfig hands to the writer when the
\* range over the profile map visits the names in the given order: a store
\* that does not load (absent or unparsable) counts as empty
writeProfilesToConfig(file, profiles, order, rev) ==
    LET ld  == Load(file)
        cfg == IF ld.ok THEN ld.cfg ELSE IniEmpty
    IN  ReplaceProfiles(cfg, profiles, order, rev, 1)

\* writeProfilesToConfig(profiles) up to its call of the writer
WriteProfilesToConfig ==
    /\ gen.pc = "write"
    /\ \E order \in Perms(DOMAIN gen.profiles), rev \in BOOLEAN :
         w' = StartWriter(writeProfilesToConfig(fs[ConfigPath], gen.profiles,
                                                order, rev),
                          "profiles")
    /\ gen' = [gen EXCEPT !.pc = "writing"]
    /\ UNCHANGED <<fs, dryRun, ssoStartURLFlag, defaultRegion, cacheDir, now,
                   directory, runs, hist>>
    /\ UNCHANGED useVars
    /\ UNCHANGED unitVars


(***************************************************************************)
(* writeConfigWithoutEscaping, step by step                                *)
(***************************************************************************)

\* What the caller does with the writer's result.  generateProfiles ignores
\* the result of writing the minimal store and goes on to the token lookup;
\* writeProfilesToConfig returns it, and generateProfiles wraps an error.
AfterWriter(err) ==
    [(IF w.ret = "minimal"
      THEN [gen EXCEPT !.pc = "token"]
      ELSE IF err = ""
      THEN [GenReturn("") EXCEPT !.wrote = TRUE]
      ELSE GenReturn("failed to write profiles to config"))
        EXCEPT !.writeFailed = gen.writeFailed \/ err # "",
               !.rewrites = IF err = "" THEN gen.rewrites + 1
                            ELSE gen.rewrites]

\* return of writeConfigWithoutEscaping: the deferred os.Remove deletes the
\* temporary file if it is still there
WriterReturn(err) ==
    /\ w' = [w EXCEPT !.pc = "none", !.err = err]
    /\ gen' = AfterWriter(err)

\* os.CreateTemp(filepath.Dir(configPath), ".aws-config-temp-")
CreateTemp ==
    /\ w.pc = "create"
    /\ \/ /\ fs' = [fs EXCEPT ![w.temp] = FileOf(<<>>)]
          /\ w' = [w EXCEPT !.pc = "write"]
          /\ gen' = gen
       \/ /\ WriterReturn("failed to create temp file")
          /\ fs' = fs
    /\ UNCHANGED <<dryRun, ssoStartURLFlag, defaultRegion, cacheDir, now,
                   directory, runs, hist>>
    /\ UNCHANGED useVars
    /\ UNCHANGED unitVars

\* One fmt.Fprintf to the temporary file: a section header, a key/value
\* pair or a blank line
WriteLine ==
    /\ w.pc = "write"
    /\ w.n < Len(w.lines)
    /\ \/ /\ fs' = [fs EXCEPT ![w.temp] =
                       FileOf(Append(fs[w.temp].lines, w.lines[w.n + 1]))]
          /\ w' = [w EXCEPT !.n = w.n + 1]
          /\ gen' = gen
       \/ /\ WriterReturn("failed to write")
          /\ fs' = [fs EXCEPT ![w.temp] = NoFile]
    /\ UNCHANGED <<dryRun, ssoStartURLFlag, defaultRegion, cacheDir, now,
                   directory, runs, hist>>
    /\ UNCHANGED useVars
    /\ UNCHANGED unitVars

\* tempFile.Close() after the last section
CloseTemp ==
    /\ w.pc = "write"
    /\ w.n = Len(w.lines)
    /\ w' = [w EXCEPT !.pc = "rename"]
    /\ UNCHANGED <<fs, dryRun, ssoStartURLFlag, defaultRegion, cacheDir, now,
                   directory, gen, runs, hist>>
    /\ UNCHANGED useVars
    /\ UNCHANGED unitVars

\* os.Rename(tempFile.Name(), configPath), then the return with its deferred
\* os.Remove(tempFile.Name())
Rename ==
    /\ w.pc = "rename"
    /\ \/ /\ fs' = [[fs EXCEPT ![ConfigPath] = fs[w.temp]]
                        EXCEPT ![w.temp] = NoFile]
          /\ WriterReturn("")
       \/ /\ fs' = [fs EXCEPT ![w.temp] = NoFile]
          /\ WriterReturn("rename failed")
    /\ UNCHANGED <<dryRun, ssoStartURLFlag, defaultRegion, cacheDir, now,
                   directory, runs, hist>>
    /\ UNCHANGED useVars
    /\ UNCHANGED unitVars

\* The process is killed: nothing deferred runs
Crash ==
    /\ gen.pc \notin {"idle", "done", "crashed"}
    /\ gen' = [gen EXCEPT !.pc = "crashed"]
    /\ UNCHANGED <<fs, dryRun, ssoStartURLFlag, defaultRegion, cacheDir, now,
                   directory, w, runs, hist>>
    /\ UNCHANGED useVars
    /\ UNCHANGED unitVars

\* The command is invoked again with the same flags and the same directory
RunAgain ==
    /\ gen.pc = "done"
    /\ runs < MaxRuns
    /\ hist' = Append(hist, [store |-> fs[ConfigPath],
                             wrote |-> gen.wrote, err |-> gen.err])
    /\ runs' = runs + 1
    /\ gen' = [GenIdle EXCEPT !.store = fs]
    /\ w' = WIdle
    /\ UNCHANGED <<fs, dryRun, ssoStartURLFlag, defaultRegion, cacheDir, now,
                   directory>>
    /\ UNCHANGED useVars
    /\ UNCHANGED unitVars

GenNext ==
    \/ GenerateProfilesBegin
    \/ GetToken
    \/ ListRoles
    \/ GenerateFromRoles
    \/ WriteProfilesToConfig
    \/ CreateTemp
    \/ WriteLine
    \/ CloseTemp
    \/ Rename
    \/ Crash
    \/ RunAgain

(***************************************************************************)
(* use                                                                     *)
(***************************************************************************)

\* One more line on outputWriter
Say(u, msg) ==
    [u EXCEPT !.out = Append(u.out, msg)]

\* return of useCmd.Run
UseReturn(u) ==
    [u EXCEPT !.pc = "done"]

\* clientcmd.ModifyConfig(configAccess, newConfig, true): the store becomes
\* newConfig, or the call fails (no starting configuration can be read from
\* a file that does not parse; the file or its lock cannot be written) and
\* the store is as it was
ModifyConfig(store, newConfig) ==
    {[err |-> "failed to write kubeconfig", store |-> store]}
        \cup IF store.state = "malformed" THEN {}
             ELSE {[err |-> "", store |-> KubeOf(newConfig)]}

\* One more call of a collaborator of useCmd.Run
Called(u, name) ==
    [u EXCEPT !.calls = Append(u.calls, name)]

\* ModifyConfig has returned: it rewrites the file when the configuration
\* it was given differs from the one it started from
Rewrote(u, store, result) ==
    [u EXCEPT !.rewrites = IF result # store THEN u.rewrites + 1
                           ELSE u.rewrites]

\* ensureSSO with a validator that is asked a second time after a refusal
EnsureSSORetries ==
    /\ use.pc = "idle"
    /\ \E valid \in BOOLEAN, again \in BOOLEAN :
          LET u == Called([Say(use, "Checking credentials for profile")
                              EXCEPT !.before = kube],
                          "credentialsValidator")
              v == Called(u, "credentialsValidator")
          IN  use' = IF valid
                     THEN [Say(u, "Credentials are valid")
                              EXCEPT !.pc = "region"]
                     ELSE IF again
                     THEN [Say(v, "Credentials are valid")
                              EXCEPT !.pc = "region"]
                     ELSE UseReturn(Say(Say(Say(Say(v,
                              "Credentials are expired or invalid."),
                              "Please run: aws sso login --profile"),
                              "Then try this command again."),
                              "Failed to ensure SSO login:"))
    /\ UNCHANGED <<kube, devFlag, provider, stdin, switches, klog>>
    /\ UNCHANGED genVars
    /\ UNCHANGED unitVars

\* ensureSSO: the credentials validator is asked once and accepts the profile
\* or not; a refusal is reported with the instruction to log in again, and
\* useCmd.Run reports the error and returns
EnsureSSO ==
    /\ use.pc = "idle"
    /\ \E valid \in BOOLEAN :
          LET u == Called([Say(use, "Checking credentials for profile")
                              EXCEPT !.before = kube],
                          "credentialsValidator")
          IN  use' = IF valid
                     THEN [Say(u, "Credentials are valid")
                              EXCEPT !.pc = "region"]
                     ELSE UseReturn(Say(Say(Say(Say(u,
                              "Credentials are expired or invalid."),
                              "Please run: aws sso login --profile"),
                              "Then try this command again."),
                              "Failed to ensure SSO login:"))
    /\ UNCHANGED <<kube, devFlag, provider, stdin, switches, klog>>
    /\ UNCHANGED genVars
    /\ UNCHANGED unitVars

\* clusterProvider.GetRegion without the check that a region is configured
GetRegionUnchecked ==
    /\ use.pc = "region"
    /\ \E failed \in BOOLEAN :
          LET u == Called(use, "GetRegion")
          IN  use' = IF failed
                     THEN UseReturn(Say(u, "Failed to get region for profile"))
                     ELSE [u EXCEPT !.pc = "list", !.region = provider.region]
    /\ UNCHANGED <<kube, devFlag, provider, stdin, switches, klog>>
    /\ UNCHANGED genVars
    /\ UNCHANGED unitVars

\* clusterProvider.GetRegion and the check that a region is configured
GetRegion ==
    /\ use.pc = "region"
    /\ \E failed \in BOOLEAN :
          LET u == Called(use, "GetRegion")
          IN  use' = IF failed
                     THEN UseReturn(Say(u, "Failed to get region for profile"))
                     ELSE IF provider.region = <<>>
                     THEN UseReturn(Say(u, "No region configured for profile"))
                     ELSE [u EXCEPT !.pc = "list", !.region = provider.region]
    /\ UNCHANGED <<kube, devFlag, provider, stdin, switches, klog>>
    /\ UNCHANGED genVars
    /\ UNCHANGED unitVars

\* clusterProvider.ListClusters
ListClusters ==
    /\ use.pc = "list"
    /\ \E failed \in BOOLEAN :
          LET u == Called(use, "ListClusters")
          IN  use' = IF failed
                     THEN UseReturn(Say(u, "Failed to list clusters:"))
                     ELSE [u EXCEPT !.pc = "select",
                                    !.clusterList = provider.clusters]
    /\ UNCHANGED <<kube, devFlag, provider, stdin, switches, klog>>
    /\ UNCHANGED genVars
    /\ UNCHANGED unitVars

\* An empty list taken on to updateKubeconfig, with no cluster name
NoClustersGoesOn ==
    /\ use.pc = "select"
    /\ Len(use.clusterList) = 0
    /\ use' = [Say(use, "No clusters found in this account")
                  EXCEPT !.pc = "info"]
    /\ UNCHANGED <<kube, devFlag, provider, stdin, switches, klog>>
    /\ UNCHANGED genVars
    /\ UNCHANGED unitVars

\* len(clusterList) == 0
NoClusters ==
    /\ use.pc = "select"
    /\ Len(use.clusterList) = 0
    /\ use' = UseReturn(Say(use, "No clusters found in this account"))
    /\ UNCHANGED <<kube, devFlag, provider, stdin, switches, klog>>
    /\ UNCHANGED genVars
    /\ UNCHANGED unitVars

\* A single cluster that is still asked for at the prompt
OnlyOneClusterPrompts ==
    /\ use.pc = "select"
    /\ Len(use.clusterList) = 1
    /\ LET read == ReadString(stdin, "LF")
           sel  == selectByNumber(read.line, use.clusterList)
           u    == [Say(Say(use, "Available clusters in region"),
                        "Select cluster by number: ")
                       EXCEPT !.prompted = TRUE, !.line = read.line,
                              !.readErr = read.err]
       IN  use' = IF read.err # ""
                  THEN UseReturn(Say(u, "Error reading input:"))
                  ELSE IF ~sel.ok
                  THEN UseReturn(Say(u, "Invalid selection"))
                  ELSE [u EXCEPT !.pc = "info", !.selected = sel.selected]
    /\ UNCHANGED <<kube, devFlag, provider, stdin, switches, klog>>
    /\ UNCHANGED genVars
    /\ UNCHANGED unitVars

\* len(clusterList) == 1: the cluster is taken without a prompt
OnlyOneCluster ==
    /\ use.pc = "select"
    /\ Len(use.clusterList) = 1
    /\ use' = [Say(use, "Only one cluster found:")
                  EXCEPT !.pc = "info", !.selected = use.clusterList[1]]
    /\ UNCHANGED <<kube, devFlag, provider, stdin, switches, klog>>
    /\ UNCHANGED genVars
    /\ UNCHANGED unitVars

\* Two clusters or more: the list and the prompt are printed, one line is
\* read from standard input and the cluster is selected by its number
ReadSelection ==
    /\ use.pc = "select"
    /\ Len(use.clusterList) >= 2
    /\ LET read == ReadString(stdin, "LF")
           sel  == selectByNumber(read.line, use.clusterList)
           u    == [Say(Say(use, "Available clusters in region"),
                        "Select cluster by number: ")
                       EXCEPT !.prompted = TRUE, !.line = read.line,
                              !.readErr = read.err]
       IN  use' = IF read.err # ""
                  THEN UseReturn(Say(u, "Error reading input:"))
                  ELSE IF ~sel.ok
                  THEN UseReturn(Say(u, "Invalid selection"))
                  ELSE [u EXCEPT !.pc = "info", !.selected = sel.selected]
    /\ UNCHANGED <<kube, devFlag, provider, stdin, switches, klog>>
    /\ UNCHANGED genVars
    /\ UNCHANGED unitVars

\* updateKubeconfig up to clusterProvider.GetClusterInfo: the cluster is
\* described, with the endpoint it has at that time, or the call fails
GetClusterInfo ==
    /\ use.pc = "info"
    /\ LET u == Called([Say(use, "Updating kubeconfig for cluster:")
                           EXCEPT !.infoCalls = use.infoCalls + 1],
                       "GetClusterInfo")
       IN  \/ use' = UseReturn(Say(u, "Failed to get cluster info:"))
           \/ \E endpoint \in EndpointsOf(use.selected) :
                 use' = [u EXCEPT !.pc = "kubectx",
                                  !.clusterInfo =
                                      ClusterInfoOf(Profile, use.selected,
                                                    use.region, endpoint)]
    /\ UNCHANGED <<kube, devFlag, provider, stdin, switches, klog>>
    /\ UNCHANGED genVars
    /\ UNCHANGED unitVars

\* createOrUpdateKubeContext: a store that cannot be loaded is replaced by a
\* new configuration, the entries are set and the result is written
CreateOrUpdateKubeContext ==
    /\ use.pc = "kubectx"
    /\ LET loaded == LoadKubeconfig(kube)
           config == IF loaded.err # "" THEN NewConfig ELSE loaded.config
           new    == createOrUpdateKubeContext(config, Profile,
                                               use.clusterInfo)
       IN  \E r \in ModifyConfig(kube, new) :
              /\ kube' = r.store
              /\ IF r.err # ""
                 THEN /\ use' = UseReturn(Say(Called(use, "createOrUpdateKubeContext"),
                                    "Failed to update kubeconfig:"))
                      /\ klog' = klog
                 ELSE /\ use' = Rewrote([Say(Say(Called(use, "createOrUpdateKubeContext"),
                                    "Successfully updated kubeconfig for cluster:"),
                                    "Current context set to:")
                                    EXCEPT !.pc = "azureUser"], kube, r.store)
                      /\ klog' = Append(klog, use.clusterInfo)
    /\ UNCHANGED <<devFlag, provider, stdin, switches>>
    /\ UNCHANGED genVars
    /\ UNCHANGED unitVars

\* A secondary pass whose failure puts the store back as the run found it
AddAzureUserReverts ==
    /\ use.pc = "azureUser"
    /\ LET loaded == LoadKubeconfig(kube)
           u == Say(Called(use, "addAzureUser"), "Adding Azure user configuration")
           warned == Say(u, "Warning: Failed to add Azure user configuration:")
       IN  IF loaded.err # ""
           THEN /\ kube' = use.before
                /\ use' = [warned EXCEPT !.pc = "azureContext"]
           ELSE \E r \in ModifyConfig(kube,
                                      addAzureUser(loaded.config, devFlag)) :
                   /\ kube' = IF r.err # "" THEN use.before ELSE r.store
                   /\ use' = Rewrote([(IF r.err # "" THEN warned ELSE u)
                                         EXCEPT !.pc = "azureContext"],
                                     kube, r.store)
    /\ UNCHANGED <<devFlag, provider, stdin, switches, klog>>
    /\ UNCHANGED genVars
    /\ UNCHANGED unitVars

\* addAzureUser: a failure is reported as a warning and the run goes on
AddAzureUser ==
    /\ use.pc = "azureUser"
    /\ LET loaded == LoadKubeconfig(kube)
           u == Say(Called(use, "addAzureUser"), "Adding Azure user configuration")
           warned == Say(u, "Warning: Failed to add Azure user configuration:")
       IN  IF loaded.err # ""
           THEN /\ kube' = kube
                /\ use' = [warned EXCEPT !.pc = "azureContext"]
           ELSE \E r \in ModifyConfig(kube,
                                      addAzureUser(loaded.config, devFlag)) :
                   /\ kube' = r.store
                   /\ use' = Rewrote([(IF r.err # "" THEN warned ELSE u)
                                         EXCEPT !.pc = "azureContext"],
                                     kube, r.store)
    /\ UNCHANGED <<devFlag, provider, stdin, switches, klog>>
    /\ UNCHANGED genVars
    /\ UNCHANGED unitVars

\* addAzureContext: a failure is reported as a warning; updateKubeconfig and
\* useCmd.Run return
AddAzureContext ==
    /\ use.pc = "azureContext"
    /\ LET loaded == LoadKubeconfig(kube)
           v == Say(Called(use, "addAzureContext"), "Adding Azure context for cluster...")
           u == IF loaded.err # "" THEN v
                ELSE [v EXCEPT !.out = v.out \o addAzureContextWarnings(
                                                   loaded.config, use.selected)]
           warned == Say(u, "Warning: Failed to add Azure context:")
       IN  IF loaded.err # ""
           THEN /\ kube' = kube
                /\ use' = UseReturn(warned)
           ELSE \E r \in ModifyConfig(kube,
                                      addAzureContext(loaded.config,
                                                      use.selected)) :
                   /\ kube' = r.store
                   /\ use' = Rewrote(UseReturn(IF r.err # "" THEN warned
                                               ELSE u),
                                     kube, r.store)
    /\ UNCHANGED <<devFlag, provider, stdin, switches, klog>>
    /\ UNCHANGED genVars
    /\ UNCHANGED unitVars

\* The command is invoked again, with or without --dev and with something
\* else on standard input
UseAgain ==
    /\ use.pc = "done"
    /\ switches < MaxSwitches
    /\ switches' = switches + 1
    /\ stdin' \in StdinInputs
    /\ devFlag' \in BOOLEAN
    /\ use' = UseIdle
    /\ UNCHANGED <<kube, provider, klog>>
    /\ UNCHANGED genVars
    /\ UNCHANGED unitVars

UseNext ==
    \/ EnsureSSO
    \/ GetRegion
    \/ ListClusters
    \/ NoClusters
    \/ OnlyOneCluster
    \/ ReadSelection
    \/ GetClusterInfo
    \/ CreateOrUpdateKubeContext
    \/ AddAzureUser
    \/ AddAzureContext
    \/ UseAgain

(***************************************************************************)
(* getSSOAccessToken on its own                                            *)
(***************************************************************************)

\* What readTokenFromCache returned for the entry at place i
Read(i, r) ==
    [entry |-> i, err |-> r.err, token |-> r.token]

\* A call getSSOAccessToken(ctx, startURL, region) about to start
TokenCall(startURL) ==
    [pc |-> "readdir", startURL |-> startURL, i |-> 0, read |-> <<>>,
     result |-> [err |-> "", token |-> <<>>]]

\* return of getSSOAccessToken
TokenReturn(u, err, token) ==
    [u EXCEPT !.pc = "done", !.result = [err |-> err, token |-> token]]

\* os.ReadDir(cacheDir)
ReadDir ==
    /\ unit.pc = "readdir"
    /\ unit' = IF ~cacheDir.readable
               THEN TokenReturn(unit, "failed to read SSO cache directory",
                                <<>>)
               ELSE [unit EXCEPT !.pc = "scan", !.i = 1]
    /\ UNCHANGED <<genVars, useVars>>

\* A pass of the loop that returns whatever token readTokenFromCache hands
\* back without an error, an empty one included
ScanEntryAnyToken ==
    /\ unit.pc = "scan"
    /\ unit.i <= Len(cacheDir.entries)
    /\ LET entry == cacheDir.entries[unit.i]
           r == readTokenFromCache(entry, unit.startURL, now)
           u == [unit EXCEPT !.i = unit.i + 1]
       IN  unit' = IF ~entry.json
                   THEN u
                   ELSE IF r.err = ""
                   THEN TokenReturn([unit EXCEPT
                                        !.read = Append(unit.read, Read(unit.i, r))],
                                    "", r.token)
                   ELSE [u EXCEPT !.read = Append(unit.read, Read(unit.i, r))]
    /\ UNCHANGED <<genVars, useVars>>

\* One pass of the loop over the directory entries: a file whose name does
\* not end in ".json" is passed over, any other is handed to
\* readTokenFromCache, and its token is returned if there was no error and
\* the token is not empty
ScanEntry ==
    /\ unit.pc = "scan"
    /\ unit.i <= Len(cacheDir.entries)
    /\ LET entry == cacheDir.entries[unit.i]
           r == readTokenFromCache(entry, unit.startURL, now)
           u == [unit EXCEPT !.i = unit.i + 1]
       IN  unit' = IF ~entry.json
                   THEN u
                   ELSE IF r.err = "" /\ r.token # <<>>
                   THEN TokenReturn([unit EXCEPT
                                        !.read = Append(unit.read, Read(unit.i, r))],
                                    "", r.token)
                   ELSE [u EXCEPT !.read = Append(unit.read, Read(unit.i, r))]
    /\ UNCHANGED <<genVars, useVars>>

\* The loop has passed the last entry
NoValidToken ==
    /\ unit.pc = "scan"
    /\ unit.i > Len(cacheDir.entries)
    /\ unit' = TokenReturn(unit, "no valid SSO token found", <<>>)
    /\ UNCHANGED <<genVars, useVars>>

TokenNext ==
    \/ ReadDir
    \/ ScanEntry
    \/ NoValidToken

(***************************************************************************)
(* listAccountRoles on its own                                             *)
(***************************************************************************)

\* A call listAccountRoles(ctx, ssoClient, accessToken) about to start: both
\* paginators count the pages they have received
RolesCall ==
    [pc |-> "accounts.HasMorePages", accountPage |-> 0, account |-> 0,
     rolePage |-> 0, accountRoles |-> <<>>, warned |-> {},
     result |-> <<>>, err |-> ""]

\* accountsOutput.AccountList of the page received last
AccountList(u) ==
    directory.accountPages[u.accountPage]

\* for accountsPaginator.HasMorePages(): true before the first page and as
\* long as the page received last came with a token for the next one
AccountsHasMorePages ==
    /\ unit.pc = "accounts.HasMorePages"
    /\ unit' = IF unit.accountPage < Len(directory.accountPages)
               THEN [unit EXCEPT !.pc = "accounts.NextPage"]
               ELSE [unit EXCEPT !.pc = "sort"]
    /\ UNCHANGED <<genVars, useVars>>

\* accountsPaginator.NextPage(ctx): a failure ends the call with an error
AccountsNextPage ==
    /\ unit.pc = "accounts.NextPage"
    /\ \E failed \in BOOLEAN :
          unit' = IF failed
                  THEN [unit EXCEPT !.pc = "done",
                                    !.err = "failed to list accounts",
                                    !.result = <<>>]
                  ELSE [unit EXCEPT !.pc = "account",
                                    !.accountPage = unit.accountPage + 1,
                                    !.account = 1]
    /\ UNCHANGED <<genVars, useVars>>

\* for _, account := range accountsOutput.AccountList: a new roles
\* paginator for the account, or the end of the page
NextAccount ==
    /\ unit.pc = "account"
    /\ unit' = IF unit.account > Len(AccountList(unit))
               THEN [unit EXCEPT !.pc = "accounts.HasMorePages"]
               ELSE [unit EXCEPT !.pc = "roles.HasMorePages",
                                 !.rolePage = 0]
    /\ UNCHANGED <<genVars, useVars>>

\* for rolesPaginator.HasMorePages()
RolesHasMorePages ==
    /\ unit.pc = "roles.HasMorePages"
    /\ LET account == AccountList(unit)[unit.account]
       IN  unit' = IF unit.rolePage < Len(account.rolePages)
                   THEN [unit EXCEPT !.pc = "roles.NextPage"]
                   ELSE [unit EXCEPT !.pc = "account",
                                     !.account = unit.account + 1]
    /\ UNCHANGED <<genVars, useVars>>

\* rolesPaginator.NextPage(ctx): on a failure the warning is printed and the
\* loop continues with a paginator that is as it was before the request (it
\* records a page only when the request succeeds); otherwise one
\* AccountRole is appended for every role of the page
RolesNextPage ==
    /\ unit.pc = "roles.NextPage"
    /\ LET account == AccountList(unit)[unit.account]
           id == account.AccountId
           failed == \/ id \in directory.denied
                     \/ id \in directory.flaky \ unit.warned
           page == account.rolePages[unit.rolePage + 1]
       IN  unit' = IF failed
                   THEN [unit EXCEPT !.pc = "roles.HasMorePages",
                                     !.warned = unit.warned \cup {id}]
                   ELSE [unit EXCEPT
                            !.pc = "roles.HasMorePages",
                            !.rolePage = unit.rolePage + 1,
                            !.accountRoles = unit.accountRoles \o
                                [i \in 1..Len(page) |->
                                    [AccountID    |-> account.AccountId,
                                     AccountName  |-> account.AccountName,
                                     RoleName     |-> page[i],
                                     EmailAddress |-> account.EmailAddress]]]
    /\ UNCHANGED <<genVars, useVars>>

\* sort.Slice(accountRoles, ...) and return accountRoles, nil
SortAndReturn ==
    /\ unit.pc = "sort"
    /\ \E sorted \in SortSlice(unit.accountRoles) :
          unit' = [unit EXCEPT !.pc = "done", !.result = sorted]
    /\ UNCHANGED <<genVars, useVars>>

RolesNext ==
    \/ AccountsHasMorePages
    \/ AccountsNextPage
    \/ NextAccount
    \/ RolesHasMorePages
    \/ RolesNextPage
    \/ SortAndReturn

(***************************************************************************)
(* listAccountRoles and generateProfilesFromAccountRoles, called again on  *)
(* a directory that gives the same grants in another order                 *)
(***************************************************************************)

\* The (account, role) grants a directory exposes
Grants(dir) ==
    LET l == CollectAccountRoles(dir)
    IN  {l[i] : i \in 1..Len(l)}

\* Directories whose requests all succeed: two accounts that share their
\* name and a role but not their ID, or two accounts with different names,
\* on one page or two and in either order, the roles of the first account
\* on one page or two and in either order
OrderDirectories ==
    LET a1s == {Account(ID_12, Name_TA, rp) :
                   rp \in {<< <<Role_RO>>, <<Role_Adm>> >>,
                           << <<Role_Adm>>, <<Role_RO>> >>,
                           << <<Role_Adm, Role_RO>> >>}}
        a2  == Account(ID_34, Name_Pb, << <<Role_RO>> >>)
        a4  == Account(ID_34, Name_TA, << <<Role_Adm>> >>)
    IN  {[accountPages |-> ps, flaky |-> {}, denied |-> {}] :
            ps \in UNION {{<< <<a, b>> >>, << <<b, a>> >>,
                           << <<a>>, <<b>> >>, << <<b>>, <<a>> >>} :
                             a \in a1s, b \in {a2, a4}}}

\* A call of listAccountRoles about to start, with the results of the
\* calls made before
OrderCall(earlier) ==
    [pc |-> "accounts.HasMorePages", accountPage |-> 0, account |-> 0,
     rolePage |-> 0, accountRoles |-> <<>>, warned |-> {},
     result |-> <<>>, err |-> "", profiles |-> <<>>, earlier |-> earlier]

\* generateProfilesFromAccountRoles on the list that listAccountRoles
\* returned
ProfilesOfResult ==
    /\ unit.pc = "done"
    /\ unit' = [unit EXCEPT
                   !.pc = "generated",
                   !.profiles = generateProfilesFromAccountRoles(
                                    unit.result, URL_plain, V_eu_central_1,
                                    DefaultSSOName, defaultRegion)]
    /\ UNCHANGED <<genVars, useVars>>

\* The same two calls once more, the directory now giving the same grants
\* in any order
ListAgain ==
    /\ unit.pc = "generated"
    /\ Len(unit.earlier) + 1 < MaxCalls
    /\ \E d \in OrderDirectories :
          /\ Grants(d) = Grants(directory)
          /\ directory' = d
    /\ unit' = OrderCall(Append(unit.earlier,
                                [result |-> unit.result, err |-> unit.err,
                                 profiles |-> unit.profiles]))
    /\ UNCHANGED <<fs, dryRun, ssoStartURLFlag, defaultRegion, cacheDir, now,
                   gen, w, runs, hist>>
    /\ UNCHANGED useVars

OrderNext ==
    \/ AccountsHasMorePages
    \/ AccountsNextPage
    \/ NextAccount
    \/ RolesHasMorePages
    \/ RolesNextPage
    \/ SortAndReturn
    \/ ProfilesOfResult
    \/ ListAgain

(***************************************************************************)
(* addAzureContext on its own                                              *)
(***************************************************************************)

\* A kubeconfig whose context for Cluster_c1 names no cluster
UnboundConfig ==
    [ForeignConfig EXCEPT
        !.Contexts = Put(ForeignConfig.Contexts, Cluster_c1, NewContext)]

\* The stores addAzureContext is called on
AliasStores ==
    InitialKubes \cup {KubeOf(UnboundConfig)}

\* The cluster names addAzureContext is called with
AliasClusters ==
    {Cluster_c1, Cluster_c2, <<"o">>}

\* A call addAzureContext(cluster) about to start
AliasCall(cluster, n) ==
    [pc |-> "load", cluster |-> cluster, config |-> NewConfig,
     found |-> NewConfig, before |-> kube, out |-> <<>>, err |-> "", n |-> n]

\* addAzureContext up to the change of the configuration
AliasLoad ==
    /\ unit.pc = "load"
    /\ LET loaded == LoadKubeconfig(kube)
           u == [unit EXCEPT !.out = <<"Adding Azure context for cluster...">>]
       IN  unit' = IF loaded.err # ""
                   THEN [u EXCEPT !.pc = "done",
                                  !.err = "failed to load kubeconfig"]
                   ELSE [u EXCEPT
                            !.pc = "write",
                            !.found = loaded.config,
                            !.config = addAzureContext(loaded.config,
                                                       unit.cluster),
                            !.out = u.out \o addAzureContextWarnings(
                                                 loaded.config, unit.cluster)]
    /\ UNCHANGED <<kube, devFlag, provider, stdin, use, switches, klog>>
    /\ UNCHANGED genVars

\* clientcmd.ModifyConfig and the return of addAzureContext
AliasWrite ==
    /\ unit.pc = "write"
    /\ \E r \in ModifyConfig(kube, unit.config) :
          /\ kube' = r.store
          /\ unit' = [unit EXCEPT !.pc = "done", !.err = r.err]
    /\ UNCHANGED <<devFlag, provider, stdin, use, switches, klog>>
    /\ UNCHANGED genVars

\* addAzureContext is called again, on the store as the call before left it
AliasAgain ==
    /\ unit.pc = "done"
    /\ unit.n < MaxCalls
    /\ \E c \in AliasClusters : unit' = AliasCall(c, unit.n + 1)
    /\ UNCHANGED useVars
    /\ UNCHANGED genVars

AliasNext ==
    \/ AliasLoad
    \/ AliasWrite
    \/ AliasAgain

(***************************************************************************)
(* ManualClusterProvider                                                   *)
(***************************************************************************)

\* How many AddCluster calls a provider gets at most
MaxAdds ==
    3

\* The ClusterInfo values handed to AddCluster: two names, each at two
\* endpoints
ManualInfos ==
    {ClusterInfoOf(Profile, n, Region_eu, e) :
        n \in {Cluster_c1, Cluster_c2}, e \in Endpoints}

\* The names GetClusterInfo is asked for: one of them is never added
ManualNames ==
    {Cluster_c1, Cluster_c2, Cluster_entraid_c1}

\* NewManualClusterProvider(): an empty map, no call made yet
NewManualClusterProvider ==
    [clusters |-> <<>>, added |-> <<>>, op |-> "", arg |-> <<>>,
     names |-> <<>>, info |-> <<>>, err |-> ""]

\* A registry in which a name, once added, keeps its first info
AddClusterKeepsFirst(clusters, info) ==
    IF info.Name \in DOMAIN clusters THEN clusters
    ELSE Put(clusters, info.Name, info)

\* p.clusters[info.Name] = info
AddCluster(clusters, info) ==
    Put(clusters, info.Name, info)

\* ManualClusterProvider.AddCluster(info)
ManualAdd ==
    /\ Len(unit.added) < MaxAdds
    /\ \E info \in ManualInfos :
          unit' = [unit EXCEPT !.clusters = AddCluster(unit.clusters, info),
                               !.added = Append(unit.added, info),
                               !.op = "AddCluster", !.arg = info.Name,
                               !.names = <<>>, !.info = <<>>, !.err = ""]
    /\ UNCHANGED <<genVars, useVars>>

\* ManualClusterProvider.ListClusters: the keys of the map in the order of
\* a range over it, which Go leaves open
ManualList ==
    /\ \E order \in Perms(DOMAIN unit.clusters) :
          unit' = [unit EXCEPT !.op = "ListClusters", !.arg = <<>>,
                               !.names = order, !.info = <<>>, !.err = ""]
    /\ UNCHANGED <<genVars, useVars>>

\* ManualClusterProvider.GetClusterInfo(ctx, profile, clusterName): the
\* info filed under the name, or nil and an error
ManualGet ==
    /\ \E clusterName \in ManualNames :
          unit' = [unit EXCEPT
                      !.op = "GetClusterInfo", !.arg = clusterName,
                      !.names = <<>>,
                      !.info = IF clusterName \in DOMAIN unit.clusters
                               THEN <<unit.clusters[clusterName]>>
                               ELSE <<>>,
                      !.err = IF clusterName \in DOMAIN unit.clusters
                              THEN ""
                              ELSE "cluster not found in manual configuration"]
    /\ UNCHANGED <<genVars, useVars>>

ManualNext ==
    \/ ManualAdd
    \/ ManualList
    \/ ManualGet

(***************************************************************************)
(* generateProfilesFromAccountRoles on its own                             *)
(***************************************************************************)

\* A call generateProfilesFromAccountRoles(accountRoles, ssoStartURL,
\* ssoRegion, ssoSessionName) about to start
NamesCall(accountRoles, ssoSessionName) ==
    [pc |-> "range", accountRoles |-> accountRoles, i |-> 1,
     ssoStartURL |-> URL_plain, ssoRegion |-> V_eu_central_1,
     ssoSessionName |-> ssoSessionName,
     identifiers |-> <<>>, roleNames |-> <<>>, names |-> <<>>,
     profiles |-> <<>>, out |-> <<>>]

\* An assignment that leaves a name that is already in the map alone
FileProfileKeepsFirst(profiles, profileName, profileConfig) ==
    profiles @@ (profileName :> profileConfig)

\* profiles[profileName] = profileConfig
FileProfile(profiles, profileName, profileConfig) ==
    (profileName :> profileConfig) @@ profiles

\* A pass of the loop that files the profile only when something is printed
SynthesizeProfileUnlessDryRun ==
    /\ unit.pc = "range"
    /\ unit.i <= Len(unit.accountRoles)
    /\ LET ar == unit.accountRoles[unit.i]
           region == IF defaultRegion = <<>> THEN V_eu_central_1
                     ELSE defaultRegion
           profileName == ProfileName(ar)
           profileConfig == ProfileConfig(ar, region, unit.ssoStartURL,
                                          unit.ssoRegion, unit.ssoSessionName)
       IN  unit' = [unit EXCEPT
                      !.i = unit.i + 1,
                      !.identifiers = Append(unit.identifiers,
                                             accountIdentifier(ar)),
                      !.roleNames = Append(unit.roleNames, roleName(ar)),
                      !.names = Append(unit.names, profileName),
                      !.profiles = IF dryRun THEN unit.profiles
                                   ELSE FileProfile(unit.profiles, profileName,
                                                    profileConfig),
                      !.out = IF dryRun THEN unit.out
                              ELSE Append(unit.out,
                                          <<"Generated profile:",
                                            profileName>>)]
    /\ UNCHANGED <<genVars, useVars>>

\* One pass of the loop over accountRoles: the name is made, the profile is
\* filed under it, in the place of an earlier one of that name, and unless
\* the run is a dry run the line "Generated profile:" is printed
SynthesizeProfile ==
    /\ unit.pc = "range"
    /\ unit.i <= Len(unit.accountRoles)
    /\ LET ar == unit.accountRoles[unit.i]
           region == IF defaultRegion = <<>> THEN V_eu_central_1
                     ELSE defaultRegion
           profileName == ProfileName(ar)
           profileConfig == ProfileConfig(ar, region, unit.ssoStartURL,
                                          unit.ssoRegion, unit.ssoSessionName)
       IN  unit' = [unit EXCEPT
                      !.i = unit.i + 1,
                      !.identifiers = Append(unit.identifiers,
                                             accountIdentifier(ar)),
                      !.roleNames = Append(unit.roleNames, roleName(ar)),
                      !.names = Append(unit.names, profileName),
                      !.profiles = FileProfile(unit.profiles, profileName,
                                               profileConfig),
                      !.out = IF dryRun THEN unit.out
                              ELSE Append(unit.out,
                                          <<"Generated profile:",
                                            profileName>>)]
    /\ UNCHANGED <<genVars, useVars>>

\* return profiles
ReturnProfiles ==
    /\ unit.pc = "range"
    /\ unit.i > Len(unit.accountRoles)
    /\ unit' = [unit EXCEPT !.pc = "done"]
    /\ UNCHANGED <<genVars, useVars>>

NamesNext ==
    \/ SynthesizeProfile
    \/ ReturnProfiles

\* A call that is made again: its arguments, the map the call before it
\* returned and the store as it was when the call started
SynthCall(accountRoles, ssoSessionName, earlier, store) ==
    [field \in DOMAIN NamesCall(accountRoles, ssoSessionName)
              \cup {"earlier", "store"} |->
        IF field = "earlier" THEN earlier
        ELSE IF field = "store" THEN store
        ELSE NamesCall(accountRoles, ssoSessionName)[field]]

\* The same call once more, after the flag --dry-run and the store have
\* become whatever they may
SynthesizeAgain ==
    /\ unit.pc = "done"
    /\ Len(unit.earlier) + 1 < MaxCalls
    /\ dryRun' \in BOOLEAN
    /\ fs' \in SynthStores
    /\ unit' = SynthCall(unit.accountRoles, unit.ssoSessionName,
                         Append(unit.earlier, unit.profiles), fs')
    /\ UNCHANGED <<ssoStartURLFlag, defaultRegion, cacheDir, now, directory,
                   gen, w, runs, hist>>
    /\ UNCHANGED useVars

SynthNext ==
    \/ SynthesizeProfile
    \/ ReturnProfiles
    \/ SynthesizeAgain

(***************************************************************************)
(* Specifications                                                          *)
(***************************************************************************)

\* Runs of generate-profiles, the use command at rest
InitGen ==
    GenInit /\ UseParked /\ unit = UnitIdle

SpecGen ==
    InitGen /\ [][GenNext]_vars

\* Runs of use, generate-profiles at rest
InitUse ==
    UseInit /\ GenParked /\ unit = UnitIdle

SpecUse ==
    InitUse /\ [][UseNext]_vars

\* Calls of getSSOAccessToken for URL_plain at time 5, over every cache
\* directory of UnitCaches; nothing else runs
InitToken ==
    /\ cacheDir \in UnitCaches
    /\ now = 5
    /\ unit = TokenCall(URL_plain)
    /\ fs = [p \in Paths |-> NoFile]
    /\ dryRun = FALSE
    /\ ssoStartURLFlag = <<>>
    /\ defaultRegion = V_eu_central_1
    /\ directory = [accountPages |-> << <<>> >>]
    /\ gen = GenIdle
    /\ w = WIdle
    /\ runs = 1
    /\ hist = <<>>
    /\ UseParked

SpecToken ==
    InitToken /\ [][TokenNext]_vars

\* Calls of listAccountRoles over every directory of UnitDirectories;
\* nothing else runs
InitRoles ==
    /\ directory \in UnitDirectories
    /\ unit = RolesCall
    /\ fs = [p \in Paths |-> NoFile]
    /\ dryRun = FALSE
    /\ ssoStartURLFlag = <<>>
    /\ defaultRegion = V_eu_central_1
    /\ cacheDir = [readable |-> TRUE, entries |-> <<>>]
    /\ now = 5
    /\ gen = GenIdle
    /\ w = WIdle
    /\ runs = 1
    /\ hist = <<>>
    /\ UseParked

\* Calls of generateProfilesFromAccountRoles for every list of at most
\* MaxAccountRoles values of UnitAccountRoles; nothing else runs
InitNames ==
    /\ \E accountRoles \in UNION {[1..n -> UnitAccountRoles] :
                                     n \in 0..MaxAccountRoles},
          ssoSessionName \in {<<>>, DefaultSSOName} :
          unit = NamesCall(accountRoles, ssoSessionName)
    /\ GenParked
    /\ UseParked

SpecNames ==
    InitNames /\ [][NamesNext]_vars

\* Calls of generateProfilesFromAccountRoles made MaxCalls times over with
\* the same arguments and the same region, for every list of at most
\* MaxSynth values of SynthAccountRoles
InitSynth ==
    /\ fs \in SynthStores
    /\ dryRun \in BOOLEAN
    /\ defaultRegion \in {<<>>, V_eu_central_1}
    /\ \E accountRoles \in UNION {[1..n -> SynthAccountRoles] :
                                     n \in 0..MaxSynth},
          ssoSessionName \in {<<>>, DefaultSSOName} :
          unit = SynthCall(accountRoles, ssoSessionName, <<>>, fs)
    /\ ssoStartURLFlag = <<>>
    /\ cacheDir = [readable |-> TRUE, entries |-> <<>>]
    /\ now = 5
    /\ directory = [accountPages |-> << <<>> >>]
    /\ gen = GenIdle
    /\ w = WIdle
    /\ runs = 1
    /\ hist = <<>>
    /\ UseParked

SpecSynth ==
    InitSynth /\ [][SynthNext]_vars

\* The call is a sequential program: as long as it has a next step, it
\* takes it
SpecRoles ==
    InitRoles /\ [][RolesNext]_vars /\ WF_vars(RolesNext)

InitOrder ==
    /\ directory \in OrderDirectories
    /\ unit = OrderCall(<<>>)
    /\ fs = [p \in Paths |-> NoFile]
    /\ dryRun = FALSE
    /\ ssoStartURLFlag = <<>>
    /\ defaultRegion = V_eu_central_1
    /\ cacheDir = [readable |-> TRUE, entries |-> <<>>]
    /\ now = 5
    /\ gen = GenIdle
    /\ w = WIdle
    /\ runs = 1
    /\ hist = <<>>
    /\ UseParked

SpecOrder ==
    InitOrder /\ [][OrderNext]_vars

InitAlias ==
    /\ kube \in AliasStores
    /\ \E c \in AliasClusters : unit = AliasCall(c, 1)
    /\ devFlag = FALSE
    /\ provider = [region |-> <<>>, clusters |-> <<>>]
    /\ stdin = <<>>
    /\ use = UseIdle
    /\ switches = 1
    /\ klog = <<>>
    /\ GenParked

SpecAlias ==
    InitAlias /\ [][AliasNext]_vars

InitManual ==
    /\ unit = NewManualClusterProvider
    /\ GenParked
    /\ UseParked

SpecManual ==
    InitManual /\ [][ManualNext]_vars


(***************************************************************************)
(* Properties of profile generation                                        *)
(***************************************************************************)

\* The key/value pairs of a section, as a set
KeyMap(sec) ==
    {<<sec.keys[i].name, sec.keys[i].value>> : i \in 1..Len(sec.keys)}

\* The key/value pairs of a profile map entry, as a set
PairsOf(m) ==
    {<<k, m[k]>> : k \in DOMAIN m}

\* The run has ended with the profiles written to the store
WroteProfiles ==
    gen.pc = "done" /\ gen.wrote

\* C1: a second run of generate-profiles with the same flags and the same
\* directory leaves the store exactly as the first run left it, section
\* order included.
C1_Idempotent ==
    (WroteProfiles /\ hist # <<>> /\ hist[Len(hist)].wrote)
        => fs[ConfigPath] = hist[Len(hist)].store

\* C2: from the moment writeConfigWithoutEscaping is called, whatever step
\* it has reached and whether or not the process was killed there, the store
\* holds its complete prior content or the complete new content (before the
\* rename: the prior content), and a temporary file exists only in the
\* directory of the store.
C2_AtomicRewrite ==
    /\ w.ret # "" =>
          /\ fs[ConfigPath] \in {w.prior, FileOf(w.lines)}
          /\ w.pc \in {"create", "write", "rename"} => fs[ConfigPath] = w.prior
    /\ \A p \in Paths \ {ConfigPath} :
          fs[p].exists => Dir(p) = Dir(ConfigPath)

\* C2 witness: the process was killed in the middle of writing the sections
\* to the temporary file, the store exists and differs from the new content
C2_Witness ==
    /\ gen.pc = "crashed"
    /\ w.pc = "write"
    /\ 0 < w.n /\ w.n < Len(w.lines)
    /\ fs[w.temp] = FileOf(SubSeq(w.lines, 1, w.n))
    /\ w.prior.exists
    /\ w.prior # FileOf(w.lines)
    /\ fs[ConfigPath] = w.prior

\* The section names writeProfilesToConfig replaces
InputSections ==
    {ProfilePrefix \o n : n \in DOMAIN gen.profiles}

\* C3: after writeProfilesToConfig on a loadable store, every section that
\* is not "profile n" for an input name n is still there with the keys and
\* values it had before the call (both read as ini.Load reads them).
C3_Frame ==
    (WroteProfiles /\ Load(w.prior).ok) =>
        LET before == Load(w.prior).cfg
            after  == Load(fs[ConfigPath]).cfg
        IN  \A i \in 1..Len(before) :
                before[i].name \notin InputSections =>
                    /\ HasSection(after, before[i].name)
                    /\ KeyMap(after[SecIndex(after, before[i].name)])
                         = KeyMap(before[i])

\* C4: after writeProfilesToConfig, for every input name n the store has
\* exactly one section "profile n", and its key/value pairs are exactly the
\* pairs given for n: no key of an earlier section of that name survives.
C4_WholesaleReplace ==
    WroteProfiles =>
        LET lines == fs[ConfigPath].lines
            text  == FileText(lines)
        IN  \A n \in DOMAIN gen.profiles :
                LET sname == ProfilePrefix \o n
                IN  /\ Cardinality({i \in 1..Len(lines) :
                            lines[i] = <<"[">> \o sname \o <<"]">>}) = 1
                    /\ HasSection(text, sname)
                    /\ KeyMap(text[SecIndex(text, sname)])
                         = PairsOf(gen.profiles[n])

\* C4 witness: a profile was regenerated whose earlier section held a key
\* that the input does not give
C4_Witness ==
    /\ WroteProfiles
    /\ Load(w.prior).ok
    /\ \E n \in DOMAIN gen.profiles :
          LET before == Load(w.prior).cfg
              sname  == ProfilePrefix \o n
          IN  /\ HasSection(before, sname)
              /\ \E kv \in KeyMap(before[SecIndex(before, sname)]) :
                    kv[1] \notin DOMAIN gen.profiles[n]

\* C5: an sso_start_url written by writeConfigWithoutEscaping is read back
\* by ini.Load as the identical string.
C5_RoundTrip ==
    (w.ret # "" /\ w.pc = "none" /\ w.err = "") =>
        LET ld == Load(fs[ConfigPath])
        IN  /\ ld.ok
            /\ \A i \in 1..Len(w.cfg) :
                  HasKey(w.cfg[i], K_sso_start_url) =>
                      /\ HasSection(ld.cfg, w.cfg[i].name)
                      /\ KeyString(ld.cfg[SecIndex(ld.cfg, w.cfg[i].name)],
                                   K_sso_start_url)
                           = KeyString(w.cfg[i], K_sso_start_url)

\* C6: with --dry-run no step of generateProfiles creates or rewrites the
\* store.
C6_DryRunNoMutation ==
    [][dryRun => fs'[ConfigPath] = fs[ConfigPath]]_vars


(***************************************************************************)
(* Properties of use                                                       *)
(***************************************************************************)

\* The line msg was written to outputWriter in this run
Said(msg) ==
    \E i \in 1..Len(use.out) : use.out[i] = msg

\* The kubeconfig update of this run succeeded
Updated ==
    Said("Successfully updated kubeconfig for cluster:")

\* C7: once createOrUpdateKubeContext has succeeded twice for the same
\* cluster (same Arn and Name) with different endpoints, the store has one
\* cluster entry for it, filed under the Arn, whose Server is the endpoint
\* of the later call, one credential entry, filed under the Arn, and one
\* context, filed under the Name.
C7_Upsert ==
    \A i, j \in 1..Len(klog) :
        (/\ i < j
         /\ klog[i].Arn = klog[j].Arn
         /\ klog[i].Name = klog[j].Name
         /\ klog[i].Endpoint # klog[j].Endpoint
         /\ \A k \in (j + 1)..Len(klog) : klog[k].Arn # klog[j].Arn)
        => LET info == klog[j]
               cfg  == kube.config
           IN  /\ kube.state = "valid"
               /\ {k \in DOMAIN cfg.Clusters :
                     \/ k = info.Arn
                     \/ cfg.Clusters[k].Server \in EndpointsOf(info.Name)}
                    = {info.Arn}
               /\ cfg.Clusters[info.Arn].Server = info.Endpoint
               /\ {k \in DOMAIN cfg.AuthInfos :
                     \/ k = info.Arn
                     \/ cfg.AuthInfos[k].Exec.Args = info.AuthArgs}
                    = {info.Arn}
               /\ {k \in DOMAIN cfg.Contexts :
                     \/ k = info.Name
                     \/ /\ cfg.Contexts[k].Cluster = info.Arn
                        /\ cfg.Contexts[k].AuthInfo = info.Arn}
                    = {info.Name}

\* C7 witness: two runs have updated the same cluster, the second at another
\* endpoint than the first
C7_Witness ==
    /\ Len(klog) = 2
    /\ klog[1].Arn = klog[2].Arn
    /\ klog[1].Name = klog[2].Name
    /\ klog[1].Endpoint # klog[2].Endpoint
    /\ kube.state = "valid"
    /\ kube.config.Clusters[klog[2].Arn].Server = klog[2].Endpoint

\* The contexts the tool has written: the one named after each cluster it
\* updated and the secondary one of that cluster
ToolContexts ==
    UNION {{klog[i].Name, EntraidPrefix \o klog[i].Name} :
              i \in 1..Len(klog)}

\* C8: whatever runs of use have happened and whichever of their steps have
\* failed, every context the tool has written names a cluster and a
\* credential that are in the store.
C8_ContextsResolve ==
    kube.state = "valid" =>
        \A n \in ToolContexts \cap DOMAIN kube.config.Contexts :
            /\ kube.config.Contexts[n].Cluster \in DOMAIN kube.config.Clusters
            /\ kube.config.Contexts[n].AuthInfo
                 \in DOMAIN kube.config.AuthInfos

\* C9: from the moment createOrUpdateKubeContext has succeeded for a cluster
\* named N to the end of the run, the secondary-identity pass included, the
\* current context of the store is N and the context N names the Arn as its
\* cluster and as its credential.
C9_CurrentFollowsSwitch ==
    Updated =>
        LET info == use.clusterInfo
            cfg  == kube.config
        IN  /\ kube.state = "valid"
            /\ cfg.CurrentContext = info.Name
            /\ info.Name \in DOMAIN cfg.Contexts
            /\ cfg.Contexts[info.Name].Cluster = info.Arn
            /\ cfg.Contexts[info.Name].AuthInfo = info.Arn

\* C9 witness: the run is over, the update succeeded and the secondary pass
\* has written its credential and its context
C9_Witness ==
    /\ use.pc = "done"
    /\ Updated
    /\ ~Said("Warning: Failed to add Azure user configuration:")
    /\ ~Said("Warning: Failed to add Azure context:")
    /\ AzureUser \in DOMAIN kube.config.AuthInfos
    /\ (EntraidPrefix \o use.clusterInfo.Name) \in DOMAIN kube.config.Contexts
    /\ kube.config.CurrentContext = use.clusterInfo.Name

\* The number the line read selects, when it was read to its end and, once
\* trimmed, is an integer from 1 to the number of clusters listed
ChoiceOf(u) ==
    LET choice == Atoi(TrimSpace(u.line))
    IN  IF /\ u.readErr = ""
           /\ choice.ok
           /\ choice.value >= 1
           /\ choice.value <= Len(u.clusterList)
        THEN choice.value
        ELSE 0

\* C10 as stated: with two clusters or more, the cluster numbered i is
\* selected exactly when the trimmed input is the integer i, 1 <= i <= n;
\* on anything else, a read error included, the run reports an invalid
\* selection and ends without describing a cluster and without a write to
\* the kubeconfig store.
C10_InvalidSelectionReported ==
    (use.prompted /\ use.pc # "select") =>
        IF ChoiceOf(use) # 0
        THEN use.selected = use.clusterList[ChoiceOf(use)]
        ELSE /\ use.pc = "done"
             /\ use.selected = <<>>
             /\ Said("Invalid selection")
             /\ use.infoCalls = 0
             /\ kube = use.before

\* C10: with two clusters or more, the cluster numbered i is selected
\* exactly when a whole line was read and, trimmed, is the integer i,
\* 1 <= i <= n; otherwise the run ends without describing a cluster and
\* without a write to the kubeconfig store, reporting an error reading the
\* input when the read failed (end of input before the end of the line, even
\* after a valid number) and an invalid selection when the line is not such
\* a number.
C10_SelectionBoundary ==
    (use.prompted /\ use.pc # "select") =>
        IF ChoiceOf(use) # 0
        THEN use.selected = use.clusterList[ChoiceOf(use)]
        ELSE /\ use.pc = "done"
             /\ use.selected = <<>>
             /\ use.infoCalls = 0
             /\ kube = use.before
             /\ IF use.readErr # ""
                THEN /\ Said("Error reading input:")
                     /\ ~Said("Invalid selection")
                ELSE /\ Said("Invalid selection")
                     /\ ~Said("Error reading input:")

\* C10 witness: the input ended after a number that is in range, before the
\* end of the line, and the run ended on the read error
C10_Witness ==
    /\ use.prompted
    /\ use.pc = "done"
    /\ Len(use.clusterList) = 2
    /\ use.readErr = "EOF"
    /\ use.line = <<"2">>
    /\ Said("Error reading input:")
    /\ use.infoCalls = 0
    /\ kube = use.before


\* The run has called the collaborator
DidCall(name) ==
    \E i \in 1..Len(use.calls) : use.calls[i] = name

\* C11: when ListClusters succeeds with no cluster, the run reports that no
\* cluster was found and ends: no selection is prompted for or read,
\* GetClusterInfo is not called, and the kubeconfig store is as it was when
\* the run started
C11_EmptyClusterList ==
    (/\ use.pc = "done"
     /\ DidCall("ListClusters")
     /\ ~Said("Failed to list clusters:")
     /\ use.clusterList = <<>>)
        => /\ Said("No clusters found in this account")
           /\ use.out[Len(use.out)] = "No clusters found in this account"
           /\ ~use.prompted
           /\ use.line = <<>>
           /\ ~Said("Select cluster by number: ")
           /\ use.infoCalls = 0
           /\ ~DidCall("GetClusterInfo")
           /\ kube = use.before

\* A run that ended on an empty list, over a store that earlier runs wrote
C11_Witness ==
    /\ use.pc = "done"
    /\ DidCall("ListClusters")
    /\ ~Said("Failed to list clusters:")
    /\ use.clusterList = <<>>
    /\ Said("No clusters found in this account")
    /\ kube.state = "valid"

PrimaryUpdate ==
    LET loaded == LoadKubeconfig(use.before)
    IN  createOrUpdateKubeContext(
            IF loaded.err # "" THEN NewConfig ELSE loaded.config,
            Profile, use.clusterInfo)

\* A step of the secondary-identity pass has failed in this run
SecondaryFailed ==
    \/ Said("Warning: Failed to add Azure user configuration:")
    \/ Said("Warning: Failed to add Azure context:")

\* C13: when createOrUpdateKubeContext has succeeded and addAzureUser or
\* addAzureContext has failed with a warning, the store at the end of the
\* run still holds the cluster entry and the credential entry under the
\* Arn, the context under the Name and the current context exactly as the
\* primary update wrote them
C13_PrimarySurvivesSecondaryFailure ==
    (use.pc = "done" /\ Updated /\ SecondaryFailed)
        => LET info == use.clusterInfo
               cfg  == kube.config
           IN  /\ kube.state = "valid"
               /\ info.Arn \in DOMAIN cfg.Clusters
               /\ cfg.Clusters[info.Arn] = PrimaryUpdate.Clusters[info.Arn]
               /\ info.Arn \in DOMAIN cfg.AuthInfos
               /\ cfg.AuthInfos[info.Arn] = PrimaryUpdate.AuthInfos[info.Arn]
               /\ info.Name \in DOMAIN cfg.Contexts
               /\ cfg.Contexts[info.Name] = PrimaryUpdate.Contexts[info.Name]
               /\ cfg.CurrentContext = info.Name

\* A run whose primary update changed the store and whose addAzureUser
\* failed
C13_Witness ==
    /\ use.pc = "done"
    /\ Updated
    /\ Said("Warning: Failed to add Azure user configuration:")
    /\ kube # use.before
    /\ kube.state = "valid"
    /\ kube.config.Clusters[use.clusterInfo.Arn].Server
          = use.clusterInfo.Endpoint

\* C14: after a run that updated the cluster named N with Arn A and whose
\* secondary pass reported no failure, the store holds the credential
\* azure-user, running kubelogin, and the context entraid-N, whose
\* credential is azure-user and whose cluster is A, the cluster of the
\* context N; the run has added no cluster entry but the one under A
C14_SecondaryAlias ==
    (use.pc = "done" /\ Updated /\ ~SecondaryFailed)
        => LET info  == use.clusterInfo
               cfg   == kube.config
               alias == EntraidPrefix \o info.Name
           IN  /\ kube.state = "valid"
               /\ AzureUser \in DOMAIN cfg.AuthInfos
               /\ cfg.AuthInfos[AzureUser].Exec.Command = "kubelogin"
               /\ alias \in DOMAIN cfg.Contexts
               /\ cfg.Contexts[alias].Cluster = info.Arn
               /\ cfg.Contexts[alias].Cluster = cfg.Contexts[info.Name].Cluster
               /\ cfg.Contexts[alias].AuthInfo = AzureUser
               /\ DOMAIN cfg.Clusters = DOMAIN PrimaryUpdate.Clusters

\* A fully successful run over a store that had neither the credential nor
\* the alias
C14_Witness ==
    /\ use.pc = "done"
    /\ Updated
    /\ ~SecondaryFailed
    /\ use.before.state = "valid"
    /\ AzureUser \notin DOMAIN use.before.config.AuthInfos
    /\ (EntraidPrefix \o use.clusterInfo.Name)
          \notin DOMAIN use.before.config.Contexts
    /\ (EntraidPrefix \o use.clusterInfo.Name) \in DOMAIN kube.config.Contexts


(***************************************************************************)
(* Properties of the token cache resolver                                  *)
(***************************************************************************)

\* The artifact parses, is for the start URL asked for, and expires after
\* the time of the call
Usable(art, startURL, t) ==
    /\ art.parsable
    /\ art.StartURL = startURL
    /\ t < art.ExpiresAt

\* C15: readTokenFromCache hands back the access token of a parsable
\* artifact if and only if the StartURL of the artifact is the one asked for
\* and now < ExpiresAt; at now = ExpiresAt the artifact is refused as
\* expired.
C15_TokenUsability ==
    \A k \in 1..Len(unit.read) :
        LET r   == unit.read[k]
            art == cacheDir.entries[r.entry]
        IN  art.parsable
              => /\ (r.err = "") <=> Usable(art, unit.startURL, now)
                 /\ r.err = "" => r.token = art.AccessToken
                 /\ art.ExpiresAt = now => r.err = "expired"

\* The entries accepted by readTokenFromCache with a token that is not
\* empty, among the ".json" files of the directory
Accepted ==
    {i \in 1..Len(cacheDir.entries) :
        LET r == readTokenFromCache(cacheDir.entries[i], unit.startURL, now)
        IN  /\ cacheDir.entries[i].json
            /\ r.err = ""
            /\ r.token # <<>>}

\* The ".json" entries that readTokenFromCache accepts, whatever their token
Passing ==
    {i \in 1..Len(cacheDir.entries) :
        /\ cacheDir.entries[i].json
        /\ readTokenFromCache(cacheDir.entries[i], unit.startURL, now).err
             = ""}

\* C16 as stated: the call returns the token of the first artifact that
\* parses, has the start URL asked for and is not expired, and the error
\* "no valid SSO token found" only when no artifact passes these checks.
C16_FirstPassingArtifact ==
    (unit.pc = "done" /\ cacheDir.readable)
        => IF Passing = {}
           THEN unit.result.err = "no valid SSO token found"
           ELSE /\ unit.result.err = ""
                /\ unit.result.token
                     = cacheDir.entries[Min(Passing)].AccessToken

\* C16, amended: the call goes through the ".json" files in directory order,
\* passes over every one that readTokenFromCache refuses or whose access
\* token is empty, and returns the token of the first one left; it returns
\* the error "no valid SSO token found" exactly when the directory can be
\* read and no file is left, and the error of os.ReadDir when it cannot.
C16_FirstAcceptedToken ==
    unit.pc = "done"
        => /\ ~cacheDir.readable
                => unit.result.err = "failed to read SSO cache directory"
           /\ (cacheDir.readable /\ Accepted = {})
                => unit.result.err = "no valid SSO token found"
           /\ (cacheDir.readable /\ Accepted # {})
                => /\ unit.result.err = ""
                   /\ \E i \in Accepted :
                         /\ \A j \in Accepted : i <= j
                         /\ unit.result.token
                              = cacheDir.entries[i].AccessToken
                         /\ unit.i = i
           /\ unit.result.err = "" => unit.result.token # <<>>

\* A call that passed over an artifact with an empty token and returned the
\* token of the one after it
C16_Witness ==
    /\ unit.pc = "done"
    /\ Len(cacheDir.entries) = 2
    /\ Passing = {1, 2}
    /\ Accepted = {2}
    /\ unit.result = [err |-> "", token |-> cacheDir.entries[2].AccessToken]


(***************************************************************************)
(* Properties of the account/role enumerator                               *)
(***************************************************************************)

\* The AccountRole values of the accounts of the directory whose AccountId
\* is not in ids
PairsOfOthers(ids) ==
    {ar \in {CollectAccountRoles(directory)[i] :
                 i \in 1..Len(CollectAccountRoles(directory))} :
        ar.AccountID \notin ids}

\* The call has returned without an error
Returned ==
    unit.pc = "done" /\ unit.err = ""

\* C17: once a request for the roles of an account has failed,
\* listAccountRoles still returns, and unless a request for a page of
\* accounts fails it returns without an error a list that holds an
\* AccountRole for every (account, role) pair of every other account.
C17_PartialResult ==
    (unit.warned # {})
        ~> (/\ unit.pc = "done"
            /\ unit.err = ""
                 => \A ar \in PairsOfOthers(unit.warned) :
                       \E i \in 1..Len(unit.result) : unit.result[i] = ar)

\* C18: the list listAccountRoles returns holds the (account, role) pairs
\* of all pages of accounts and all pages of roles, each as often as the
\* directory gives it, in ascending order of AccountName and, for the same
\* AccountName, of RoleName
C18_SortedEnumeration ==
    Returned
        => LET all == CollectAccountRoles(directory)
               res == unit.result
           IN  /\ Len(res) = Len(all)
               /\ \A ar \in {all[i] : i \in 1..Len(all)} :
                     Cardinality({i \in 1..Len(res) : res[i] = ar})
                       = Cardinality({i \in 1..Len(all) : all[i] = ar})
               /\ \A i \in 1..(Len(res) - 1) :
                     \/ LexLess(res[i].AccountName, res[i + 1].AccountName)
                     \/ /\ res[i].AccountName = res[i + 1].AccountName
                        /\ ~LexLess(res[i + 1].RoleName, res[i].RoleName)

\* A call over two pages of accounts and two pages of roles, whose result
\* is in another order than the directory gave
C18_Witness ==
    /\ Returned
    /\ Len(directory.accountPages) = 2
    /\ Len(unit.result) = 3
    /\ unit.result # CollectAccountRoles(directory)
    /\ unit.result[1].AccountName = Name_Pb
    /\ unit.result[2].RoleName = Role_Adm
    /\ unit.result[3].RoleName = Role_RO


(***************************************************************************)
(* Properties of the profile synthesizer                                   *)
(***************************************************************************)

\* A character in lower case, "-" for a space and for "."
IdentifierChar(c) ==
    IF c \in {" ", "."} THEN "-" ELSE ToLower(<<c>>)[1]

\* The identifier of an AccountRole: the account name, or the account ID
\* when the name is empty, character by character
IdentifierOf(ar) ==
    LET from == IF Len(ar.AccountName) > 0 THEN ar.AccountName
                ELSE ar.AccountID
    IN  [k \in 1..Len(from) |-> IdentifierChar(from[k])]

\* C19: for every AccountRole of the list, generateProfilesFromAccountRoles
\* makes the name <identifier>-<role>, where the identifier is the account
\* name, or the account ID when the name is empty, in lower case with "-"
\* for every space and every "."; the profile map has an entry of that
\* name; "Test Account"/"AdminRole" gives test-account-adminrole and
\* "Prod Account"/"ReadOnlyRole" gives prod-account-readonlyrole
C19_ProfileNameIdentifier ==
    \A i \in 1..Len(unit.names) :
        LET ar == unit.accountRoles[i]
        IN  /\ unit.names[i]
                 = IdentifierOf(ar) \o <<"-">> \o unit.roleNames[i]
            /\ unit.names[i] \in DOMAIN unit.profiles
            /\ (ar.AccountName = Name_TestAccount
                 /\ ar.RoleName = Role_AdminRole)
                  => unit.names[i]
                       = <<"t", "e", "s", "t", "-", "a", "c", "c", "o", "u",
                           "n", "t", "-", "a", "d", "m", "i", "n", "r", "o",
                           "l", "e">>
            /\ (ar.AccountName = Name_ProdAccount
                 /\ ar.RoleName = Role_ReadOnlyRole)
                  => unit.names[i]
                       = <<"p", "r", "o", "d", "-", "a", "c", "c", "o", "u",
                           "n", "t", "-", "r", "e", "a", "d", "o", "n", "l",
                           "y", "r", "o", "l", "e">>

\* A call that has named an account by its ID, one by a name with a space
\* or a ".", and returned
C19_Witness ==
    /\ unit.pc = "done"
    /\ Len(unit.names) = 2
    /\ unit.accountRoles[1].AccountName = <<>>
    /\ unit.accountRoles[1].AccountID = <<"3", ".", "4">>
    /\ unit.identifiers[1] = <<"3", "-", "4">>
    /\ unit.accountRoles[2].AccountName = Name_TA
    /\ unit.identifiers[2] = <<"t", "-", "a">>

\* s holds sub at place k
HoldsAt(s, sub, k) ==
    /\ k + Len(sub) - 1 <= Len(s)
    /\ SubSeq(s, k, k + Len(sub) - 1) = sub

\* The role part as the statement has it, read on the role name as the
\* directory gives it
RolePartAsGiven(name) ==
    IF \E k \in 1..Len(name) : HoldsAt(name, V_itfrun_operator, k)
    THEN V_operator
    ELSE IF HoldsAt(name, V_itfrun_prefix, 1)
    THEN SubSeq(name, Len(V_itfrun_prefix) + 1, Len(name))
    ELSE ToLower(name)

\* C20 as stated: the role part is "operator" when the role name contains
\* "itfrun-operator", before any prefix is looked for; else the role name
\* without the prefix "itfrun-" when it has it; else the role name in lower
\* case.
C20_RoleSimplification ==
    \A i \in 1..Len(unit.roleNames) :
        unit.roleNames[i] = RolePartAsGiven(unit.accountRoles[i].RoleName)

\* C20, amended: the role name is first put in lower case, and the rules
\* are read on that: "operator" when it contains "itfrun-operator", before
\* any prefix is looked for; else what follows the prefix "itfrun-" when it
\* has it; else all of it. The role part is in lower case in all three
\* cases, and the marker and the prefix are found in any case of letters.
C20_RoleSimplificationLowerFirst ==
    \A i \in 1..Len(unit.roleNames) :
        unit.roleNames[i]
            = RolePartAsGiven(ToLower(unit.accountRoles[i].RoleName))

\* A call that has met the marker behind the prefix in upper case, and a
\* prefix before upper-case letters
C20_Witness ==
    /\ unit.pc = "done"
    /\ Len(unit.roleNames) = 2
    /\ ToLower(unit.accountRoles[1].RoleName) = V_itfrun_operator
    /\ unit.accountRoles[1].RoleName # V_itfrun_operator
    /\ unit.roleNames[1] = V_operator
    /\ unit.accountRoles[2].RoleName = Role_RO
    /\ unit.roleNames[2] = <<"r", "o">>


\* C21: a call of generateProfilesFromAccountRoles made again with the same
\* list, the same SSO parameters and the same region returns the same map
\* of names to entries, whatever --dry-run and the store are at either
\* call, and the store is after the call what it was when the call started
C21_SynthesisDeterministic ==
    /\ fs = unit.store
    /\ unit.pc = "done"
         => \A k \in 1..Len(unit.earlier) : unit.profiles = unit.earlier[k]

\* A second call that has returned a map with an entry, under another
\* --dry-run and over another store than the first
C21_Witness ==
    /\ unit.pc = "done"
    /\ Len(unit.earlier) = 1
    /\ DOMAIN unit.profiles # {}
    /\ dryRun
    /\ unit.out = <<>>
    /\ fs[ConfigPath].exists


\* The place in the list of the last AccountRole that was given the name
LastNamed(name) ==
    Max({i \in 1..Len(unit.names) : unit.names[i] = name})

\* C22: when two different AccountRole values of the list come to the same
\* profile name, the map holds one entry of that name, whose sso_account_id
\* and sso_role_name are those of the one that comes later in the list; the
\* call goes through the whole list and returns
C22_CollisionLaterWins ==
    /\ DOMAIN unit.profiles = {unit.names[i] : i \in 1..Len(unit.names)}
    /\ \A name \in DOMAIN unit.profiles :
          LET ar == unit.accountRoles[LastNamed(name)]
          IN  /\ unit.profiles[name][K_sso_account_id] = ar.AccountID
              /\ unit.profiles[name][K_sso_role_name] = ar.RoleName
    /\ unit.pc = "done" => Len(unit.names) = Len(unit.accountRoles)

\* A call that has returned one entry for two AccountRole values whose role
\* names differ
C22_Witness ==
    /\ unit.pc = "done"
    /\ Len(unit.names) = 2
    /\ unit.names[1] = unit.names[2]
    /\ unit.accountRoles[1].RoleName # unit.accountRoles[2].RoleName
    /\ Cardinality(DOMAIN unit.profiles) = 1
    /\ unit.profiles[unit.names[1]][K_sso_role_name]
          = unit.accountRoles[2].RoleName

\* C23: every entry of the map has sso_account_id, the AccountID, and
\* sso_role_name, the RoleName as the directory gave it, of the AccountRole
\* it was made from, region, and output = json; besides these it has
\* sso_session and nothing else when a session name is given, and
\* sso_start_url and sso_region and nothing else when none is
C23_EntryShape ==
    \A name \in DOMAIN unit.profiles :
        LET entry == unit.profiles[name]
            form  == IF unit.ssoSessionName # <<>>
                     THEN {K_sso_session}
                     ELSE {K_sso_start_url, K_sso_region}
        IN  /\ DOMAIN entry
                 = {K_sso_account_id, K_sso_role_name, K_region, K_output}
                      \cup form
            /\ \E i \in 1..Len(unit.names) :
                  /\ unit.names[i] = name
                  /\ entry[K_sso_account_id] = unit.accountRoles[i].AccountID
                  /\ entry[K_sso_role_name] = unit.accountRoles[i].RoleName
            /\ entry[K_region] = defaultRegion
            /\ entry[K_output] = V_json
            /\ unit.ssoSessionName # <<>>
                  => entry[K_sso_session] = unit.ssoSessionName
            /\ unit.ssoSessionName = <<>>
                  => /\ entry[K_sso_start_url] = unit.ssoStartURL
                     /\ entry[K_sso_region] = unit.ssoRegion

\* A call with a session name that has made an entry for a role whose name
\* was simplified
C23_Witness ==
    /\ unit.pc = "done"
    /\ unit.ssoSessionName = DefaultSSOName
    /\ Len(unit.names) = 1
    /\ unit.accountRoles[1].RoleName = Role_RO
    /\ K_sso_session \in DOMAIN unit.profiles[unit.names[1]]
    /\ K_sso_start_url \notin DOMAIN unit.profiles[unit.names[1]]


\* The passes of the loop that filed a profile under a name that another
\* AccountRole had been given before
Overwrites ==
    {j \in 1..Len(unit.names) :
        \E i \in 1..(j - 1) :
            /\ unit.names[i] = unit.names[j]
            /\ unit.accountRoles[i] # unit.accountRoles[j]}

\* C28: whenever generateProfilesFromAccountRoles files a profile under a
\* name that another AccountRole of the list was given before, the run
\* prints a warning about it: a line that is not one of the "Generated
\* profile:" lines printed for every AccountRole.
C28_OverwriteReported ==
    Overwrites # {}
        => \E k \in 1..Len(unit.out) : unit.out[k][1] # "Generated profile:"


(***************************************************************************)
(* Properties of generateProfiles                                          *)
(***************************************************************************)

\* The run started with no store and without --sso-start-url, and is over
NoStoreNoFlagDone ==
    /\ gen.pc = "done"
    /\ ssoStartURLFlag = <<>>
    /\ ~gen.store[ConfigPath].exists

C29_WriteFailuresLoud ==
    /\ (w.pc = "none" /\ w.err # "")
            => /\ fs[ConfigPath] = w.prior
               /\ ~fs[w.temp].exists
    /\ (gen.pc = "done" /\ gen.writeFailed) => gen.err # ""

\* The part of C29 that is about the store and the temporary file
WriteFailureKeepsStore ==
    (w.pc = "none" /\ w.err # "")
        => /\ fs[ConfigPath] = w.prior
           /\ ~fs[w.temp].exists

\* The part of C29 that is about the write of the generated profiles
ProfilesWriteFailureLoud ==
    (gen.pc = "done" /\ w.pc = "none" /\ w.ret = "profiles" /\ w.err # "")
        => gen.err = "failed to write profiles to config"


\* The writer has returned without error
WriterDone ==
    w.ret # "" /\ w.pc = "none" /\ w.err = ""

\* Within every section of the store as it stands in the file, the keys
\* are in ascending order of their names
KeysAscending ==
    LET text == FileText(fs[ConfigPath].lines)
    IN  \A i \in 1..Len(text) :
            \A k \in 1..(Len(text[i].keys) - 1) :
                LexLess(text[i].keys[k].name, text[i].keys[k + 1].name)

\* In the store as it stands in the file, the sections named in keep that
\* the store had before the write are in the order they had before, and
\* no section the store did not have stands before one of them
OrderKept(keep) ==
    LET before == Load(w.prior).cfg
        after  == FileText(fs[ConfigPath].lines)
    IN  \A i \in 1..Len(after) : \A j \in (i + 1)..Len(after) :
            (after[j].name \in keep /\ HasSection(before, after[j].name))
                => /\ HasSection(before, after[i].name)
                   /\ after[i].name \in keep
                          => SecIndex(before, after[i].name)
                               < SecIndex(before, after[j].name)

\* The names of the sections of the store as it stands in the file
StoredSections ==
    LET after == FileText(fs[ConfigPath].lines)
    IN  {after[i].name : i \in 1..Len(after)}

\* C30: writeConfigWithoutEscaping writes the keys of every section in
\* ascending lexicographic order of their names, and after
\* writeProfilesToConfig the sections that existed before the call stand
\* in their previous relative order, with the newly created sections after
\* them.
C30_OutputOrdering ==
    /\ WriterDone => KeysAscending
    /\ (WroteProfiles /\ Load(w.prior).ok) => OrderKept(StoredSections)

\* The part of C30 that is about the keys
KeysSortedOnWrite ==
    WriterDone => KeysAscending

\* The part of C30 that is about the sections writeProfilesToConfig was not
\* given a profile for
OtherSectionsKeepOrder ==
    (WroteProfiles /\ Load(w.prior).ok)
        => OrderKept(StoredSections \ InputSections)


\* C26: after a failed role page request for an account listAccountRoles
\* goes on to the next account instead of asking for the roles of that
\* account again, so the walk ends for every finite directory, also when
\* the role listing of some account fails on every attempt.
C26_WalkTerminates ==
    <>(unit.pc = "done")

\* The walk ends when no role listing fails on every attempt
WalkTerminatesUnlessDenied ==
    <>(unit.pc = "done" \/ directory.denied # {})


\* Both calls have returned without error for the second time
CalledTwice ==
    /\ unit.pc = "generated"
    /\ unit.err = ""
    /\ Len(unit.earlier) > 0
    /\ unit.earlier[1].err = ""

\* Two grants of the directory that differ have the same account name and
\* the same role name
SharedNames ==
    \E g, h \in Grants(directory) :
        /\ g # h
        /\ g.AccountName = h.AccountName
        /\ g.RoleName = h.RoleName

\* C27: for two directories that expose the same (account, role) grants
\* in different orders listAccountRoles returns identical lists and
\* generateProfilesFromAccountRoles returns identical profile maps, also
\* when two accounts share their AccountName and a RoleName and differ in
\* their AccountID.
C27_DirectoryOrderIndependence ==
    CalledTwice
        => /\ unit.result = unit.earlier[1].result
           /\ unit.profiles = unit.earlier[1].profiles

\* C27 for directories in which no two grants share account name and role
\* name
OrderIndependenceUnlessShared ==
    (CalledTwice /\ ~SharedNames)
        => /\ unit.result = unit.earlier[1].result
           /\ unit.profiles = unit.earlier[1].profiles


(***************************************************************************)
(* Properties of the switch workflow                                       *)
(***************************************************************************)

\* The collaborators of useCmd.Run in the order of the workflow
Workflow ==
    <<"credentialsValidator", "GetRegion", "ListClusters", "GetClusterInfo",
      "createOrUpdateKubeContext", "addAzureUser", "addAzureContext">>

\* The place of a step of the run in the workflow
StepRank(pc) ==
    CASE pc = "idle"         -> 0
      [] pc = "region"       -> 1
      [] pc = "list"         -> 2
      [] pc = "select"       -> 3
      [] pc = "info"         -> 4
      [] pc = "kubectx"      -> 5
      [] pc = "azureUser"    -> 6
      [] pc = "azureContext" -> 7
      [] pc = "done"         -> 8

\* Everything the run needs before it may write the kubeconfig store: the
\* credentials were accepted, GetRegion gave a region, ListClusters gave at
\* least one cluster, one of them is selected and GetClusterInfo described
\* it
ReadyToWrite ==
    /\ Said("Credentials are valid")
    /\ ~Said("Failed to get region for profile")
    /\ use.region # <<>>
    /\ ~Said("Failed to list clusters:")
    /\ Len(use.clusterList) >= 1
    /\ \E i \in 1..Len(use.clusterList) : use.selected = use.clusterList[i]
    /\ ~Said("Invalid selection") /\ ~Said("Error reading input:")
    /\ DidCall("GetClusterInfo")
    /\ ~Said("Failed to get cluster info:")
    /\ use.clusterInfo.Name = use.selected

\* The collaborators were called in the order of the workflow, none left
\* out and none twice, as far as the run has come, and with what each of
\* them needs from the ones before; a run that is not over has a next step
\* (at the selection: the list is empty, has one cluster, or has two or
\* more and a line is read)
InWorkflowOrder ==
    /\ Len(use.calls) <= Len(Workflow)
    /\ use.calls = SubSeq(Workflow, 1, Len(use.calls))
    /\ DidCall("GetRegion") => Said("Credentials are valid")
    /\ DidCall("ListClusters") => use.region # <<>>
    /\ DidCall("GetClusterInfo")
          => \E i \in 1..Len(use.clusterList) :
                use.selected = use.clusterList[i]
    /\ DidCall("createOrUpdateKubeContext") => ReadyToWrite
    /\ (DidCall("addAzureUser") \/ DidCall("addAzureContext")) => Updated
    /\ use.pc \notin {"done", "select"}
          => ENABLED (EnsureSSO \/ GetRegion \/ ListClusters \/ GetClusterInfo
                        \/ CreateOrUpdateKubeContext \/ AddAzureUser
                        \/ AddAzureContext)
    /\ use.pc = "select"
          => \/ ENABLED (NoClusters \/ OnlyOneCluster)
             \/ Len(use.clusterList) >= 2

\* A step of a run moves it forward in the workflow, and a step that
\* changes the kubeconfig store is taken by a run that is ready to write
ForwardStep ==
    /\ use.pc # "done" => StepRank(use'.pc) > StepRank(use.pc)
    /\ kube' # kube => ReadyToWrite /\ StepRank(use.pc) >= 5
    /\ (kube' # kube /\ StepRank(use.pc) >= 6) => Updated

\* C25: every run of the use command goes through credential validation,
\* region resolution, cluster listing, selection, GetClusterInfo,
\* createOrUpdateKubeContext and the secondary-identity pass in that order
\* and ends; the kubeconfig store is written only in runs in which the
\* credentials were accepted, GetRegion gave a non-empty region, ListClusters
\* gave at least one cluster, the selection was valid and GetClusterInfo
\* succeeded, and the secondary-identity pass runs only after
\* createOrUpdateKubeContext succeeded.
C25_SwitchWorkflowOrder ==
    []InWorkflowOrder /\ [][ForwardStep]_vars

\* A run that went through the whole workflow, with a selection read from
\* standard input, and changed the store in both passes
C25_Witness ==
    /\ use.pc = "done"
    /\ use.calls = Workflow
    /\ use.prompted
    /\ kube # use.before
    /\ AzureUser \in DOMAIN kube.config.AuthInfos
    /\ AzureUser \notin DOMAIN LoadKubeconfig(use.before).config.AuthInfos


\* The run has called getSSOAccessToken and the cache holds no usable token
\* for its start URL
NoUsableToken ==
    /\ \E i \in 1..Len(gen.calls) : gen.calls[i] = "getSSOAccessToken"
    /\ getSSOAccessToken(cacheDir, gen.ssoStartURL, now).err # ""

\* C37: when getSSOAccessToken finds no usable token, generateProfiles
\* returns the error that tells the user to log in again; it has looked
\* for the token once, has made no directory call and has not called
\* writeProfilesToConfig.
C37_NoTokenIsTerminal ==
    NoUsableToken
        => /\ gen.pc \in {"done", "crashed"}
           /\ gen.pc = "done"
                 => gen.err
                      = "failed to get SSO access token; please login to AWS SSO"
           /\ gen.calls = <<"getSSOAccessToken">>
           /\ gen.accountRoles = <<>>
           /\ w.ret # "profiles"
           /\ ~gen.wrote

\* A run that ended for want of a token although the directory has accounts
\* and the minimal store had just been created
C37_Witness ==
    /\ NoUsableToken
    /\ gen.pc = "done"
    /\ gen.err = "failed to get SSO access token; please login to AWS SSO"
    /\ Len(directory.accountPages) = 2
    /\ w.ret = "minimal"
    /\ fs[ConfigPath].exists


\* ListClusters has returned exactly one cluster and the run has gone past
\* the selection
OneClusterListed ==
    /\ DidCall("ListClusters")
    /\ ~Said("Failed to list clusters:")
    /\ Len(use.clusterList) = 1
    /\ use.pc # "select"

\* C36: when ListClusters returns exactly one cluster, the run takes that
\* cluster and goes on to update the kubeconfig for it: nothing is
\* prompted for and nothing is read from the terminal.
C36_AutoSelection ==
    OneClusterListed
        => /\ use.selected = use.clusterList[1]
           /\ Said("Only one cluster found:")
           /\ ~use.prompted
           /\ use.line = <<>> /\ use.readErr = ""
           /\ ~Said("Select cluster by number: ")
           /\ ~Said("Invalid selection") /\ ~Said("Error reading input:")
           /\ DidCall("GetClusterInfo") \/ use.pc = "info"
           /\ Updated
                 => /\ klog[Len(klog)].Name = use.clusterList[1]
                    /\ use.pc = "done" /\ kube.state = "valid"
                          => kube.config.CurrentContext = use.clusterList[1]

\* A run over a single cluster that updated the store although standard
\* input held nothing that selects a cluster
C36_Witness ==
    /\ OneClusterListed
    /\ use.pc = "done"
    /\ Updated
    /\ stdin = <<"x", "LF">>
    /\ kube # use.before


\* The names of the sections that stand in a file, read line by line
SectionsIn(file) ==
    LET text == FileText(file.lines)
    IN  {text[i].name : i \in 1..Len(text)}

\* The store that writeProfilesToConfig found exists and does not load
FoundUnloadable ==
    /\ w.ret = "profiles"
    /\ w.prior.exists
    /\ ~Load(w.prior).ok

\* C32: writeProfilesToConfig starts from an empty configuration only when
\* the store does not exist; a store that exists and cannot be loaded is
\* not replaced by one that holds the generated profiles alone: what stood
\* in it is still there.
C32_UnloadableStoreKept ==
    FoundUnloadable
        => /\ SectionsIn(w.prior)
                 \subseteq {w.cfg[i].name : i \in 1..Len(w.cfg)}
           /\ (w.pc = "none" /\ w.err = "")
                 => SectionsIn(w.prior) \subseteq SectionsIn(fs[ConfigPath])

\* writeProfilesToConfig starts from what the store holds when it loads
LoadableStoreKept ==
    (w.ret = "profiles" /\ Load(w.prior).ok /\ w.pc = "none" /\ w.err = "")
        => SectionsIn(w.prior) \subseteq SectionsIn(fs[ConfigPath])


\* How often the invocation of generate-profiles has walked the directory
DirectoryWalks ==
    Cardinality({i \in 1..Len(gen.calls) : gen.calls[i] = "listAccountRoles"})

\* C31: in one invocation of the tool, generate-profiles or use, the
\* stores on disk are rewritten at most twice and the account/role
\* directory is walked at most once.
C31_BoundedRewrites ==
    /\ gen.rewrites <= 2
    /\ DirectoryWalks <= 1
    /\ use.rewrites <= 2

\* C31 for an invocation of generate-profiles
GenerateBoundedRewrites ==
    /\ gen.rewrites <= 2
    /\ DirectoryWalks <= 1

\* An invocation of generate-profiles that rewrote the store twice and
\* walked the directory
GenerateRewroteTwice ==
    /\ gen.pc = "done"
    /\ gen.rewrites = 2
    /\ DirectoryWalks = 1

\* An invocation of use rewrites the kubeconfig store at most three times
UseBoundedRewrites ==
    use.rewrites <= 3


(***************************************************************************)
(* Properties of addAzureContext                                           *)
(***************************************************************************)

\* addAzureContext has returned, and the store it loaded had no context
\* for the cluster name, or one that names no cluster
AliasFellBack ==
    /\ unit.pc = "done"
    /\ unit.err # "failed to load kubeconfig"
    /\ \/ unit.cluster \notin DOMAIN unit.found.Contexts
       \/ unit.found.Contexts[unit.cluster].Cluster = <<>>

\* A warning about the fallback was printed
AliasWarned ==
    \E i \in 1..Len(unit.out) :
        unit.out[i] \in
            {"Warning: Could not find existing context, using cluster name as fallback",
             "Warning: Empty cluster ARN, using cluster name as fallback"}

\* C35: when addAzureContext is called for a cluster name for which the
\* store has no context, or a context that names no cluster, it prints a
\* warning and does not fail on that account (the only error is that of the
\* write), and it writes the context entraid-<name> with the cluster name
\* itself as Cluster and azure-user as AuthInfo.
C35_AliasFallback ==
    AliasFellBack
        => /\ AliasWarned
           /\ unit.err \in {"", "failed to write kubeconfig"}
           /\ unit.err # "" => kube = unit.before
           /\ unit.err = ""
                 => LET name == EntraidPrefix \o unit.cluster
                    IN  /\ kube.state = "valid"
                        /\ name \in DOMAIN kube.config.Contexts
                        /\ kube.config.Contexts[name].Cluster = unit.cluster
                        /\ kube.config.Contexts[name].AuthInfo = AzureUser

\* The fallback was taken for a context that names no cluster, and the
\* alias was written
C35_Witness ==
    /\ AliasFellBack
    /\ unit.err = ""
    /\ unit.cluster \in DOMAIN unit.found.Contexts
    /\ (EntraidPrefix \o unit.cluster) \in DOMAIN kube.config.Contexts
    /\ kube # unit.before


(***************************************************************************)
(* Properties of the kubeconfig update                                     *)
(***************************************************************************)

\* Every entry of the map before whose key is not in keys is in the map
\* after, as it was
EntriesKept(before, after, keys) ==
    \A k \in (DOMAIN before) \ keys :
        k \in DOMAIN after /\ after[k] = before[k]

\* C33: createOrUpdateKubeContext for a cluster with Arn A and Name N,
\* followed by addAzureUser and addAzureContext, leaves every cluster entry
\* with a key other than A, every credential entry with a key other than A
\* and azure-user, and every context with a key other than N and entraid-N
\* in the store, unchanged.
C33_KubeconfigFrame ==
    (use.pc \in {"azureUser", "azureContext", "done"}
        /\ DidCall("createOrUpdateKubeContext"))
        => LET b == LoadKubeconfig(use.before).config
               A == use.clusterInfo.Arn
               N == use.clusterInfo.Name
           IN  /\ EntriesKept(b.Clusters, kube.config.Clusters, {A})
               /\ EntriesKept(b.AuthInfos, kube.config.AuthInfos,
                              {A, AzureUser})
               /\ EntriesKept(b.Contexts, kube.config.Contexts,
                              {N, EntraidPrefix \o N})

\* A run that went through both passes on a store that held entries of
\* another cluster, written by an earlier run, and entries nobody of this
\* tool wrote
C33_Witness ==
    /\ use.pc = "done"
    /\ use.calls = Workflow
    /\ ~Said("Warning: Failed to add Azure user configuration:")
    /\ ~Said("Warning: Failed to add Azure context:")
    /\ use.before.state = "valid"
    /\ \E k \in DOMAIN use.before.config.Contexts :
          /\ k \notin {use.clusterInfo.Name, <<"o">>}
          /\ k \in DOMAIN kube.config.Contexts
    /\ <<"o">> \in DOMAIN kube.config.Clusters
    /\ kube # use.before


\* The arguments of the azure-user credential for a value of the dev flag
AzureArgs(dev) ==
    addAzureUser(NewConfig, dev).AuthInfos[AzureUser].Exec.Args

\* The secondary contexts of the clusters switched to so far, as far as the
\* store has them
AliasesInStore ==
    {EntraidPrefix \o klog[i].Name : i \in 1..Len(klog)}
        \cap DOMAIN kube.config.Contexts

\* A cluster switched to has the name of the secondary context of another
NamesCollide ==
    \E i, j \in 1..Len(klog) : klog[j].Name = EntraidPrefix \o klog[i].Name

\* C34: after any sequence of successful switches, to any clusters and
\* with any values of the dev flag, the store holds the one credential
\* azure-user, with the server, client and tenant IDs of the dev flag of
\* the latest switch, and every context entraid-<Name> made by an earlier
\* switch names that credential.
C34_LatestRunWins ==
    (use.pc = "done" /\ Updated /\ ~SecondaryFailed)
        => /\ AzureUser \in DOMAIN kube.config.AuthInfos
           /\ kube.config.AuthInfos[AzureUser].Exec.Args = AzureArgs(devFlag)
           /\ \A n \in AliasesInStore :
                 kube.config.Contexts[n].AuthInfo = AzureUser

\* C34 when no cluster has the name of the secondary context of another
LatestRunWinsUnlessCollision ==
    (use.pc = "done" /\ Updated /\ ~SecondaryFailed /\ ~NamesCollide)
        => /\ AzureUser \in DOMAIN kube.config.AuthInfos
           /\ kube.config.AuthInfos[AzureUser].Exec.Args = AzureArgs(devFlag)
           /\ \A n \in AliasesInStore :
                 kube.config.Contexts[n].AuthInfo = AzureUser

\* Two switches to different clusters, the second with the other value of
\* the dev flag: the credential has the IDs of the second
LatestRunWon ==
    /\ use.pc = "done" /\ Updated /\ ~SecondaryFailed /\ ~NamesCollide
    /\ Len(klog) = 2
    /\ klog[1].Name # klog[2].Name
    /\ Cardinality(AliasesInStore) = 2
    /\ use.before.state = "valid"
    /\ AzureUser \in DOMAIN use.before.config.AuthInfos
    /\ use.before.config.AuthInfos[AzureUser].Exec.Args = AzureArgs(~devFlag)
    /\ AzureArgs(TRUE) # AzureArgs(FALSE)


\* The base identity sections among the given section names: the profile
\* DEFAULT-SSO and the sso-session sections
BaseSections(names) ==
    {n \in names : \/ n = ProfilePrefix \o DefaultSSOName
                   \/ HasPrefix(n, SsoSessionPrefix)}

\* No section writeProfilesToConfig replaces is a base identity section
NamesAvoidBase ==
    BaseSections(InputSections) = {}

\* C38: no synthesized profile name gives a section name that is that of
\* the profile DEFAULT-SSO or of an sso-session section, so a run of
\* generate-profiles neither deletes nor rewrites the base profile
\* DEFAULT-SSO or an sso-session section: after the profiles are written
\* these sections stand in the store with the keys and values they had.
C38_BaseSectionsUntouched ==
    (WroteProfiles /\ w.prior.exists)
        => LET before == FileText(w.prior.lines)
               after  == FileText(fs[ConfigPath].lines)
           IN  /\ NamesAvoidBase
               /\ \A b \in BaseSections(SectionsIn(w.prior)) :
                     /\ HasSection(after, b)
                     /\ KeyMap(after[SecIndex(after, b)])
                          = KeyMap(before[SecIndex(before, b)])

\* The part of C38 that is about the names
SynthesizedNamesAvoidBase ==
    gen.pc \in {"write", "writing", "done"} => NamesAvoidBase

\* The part of C38 that is about the sections, for stores that load and in
\* which no value holds a "#" or a ";"
BaseSectionsKeptWhenReadable ==
    (WroteProfiles /\ Load(w.prior).ok
        /\ Load(w.prior).cfg = FileText(w.prior.lines))
        => LET before == FileText(w.prior.lines)
               after  == FileText(fs[ConfigPath].lines)
           IN  \A b \in BaseSections(SectionsIn(w.prior)) :
                  /\ HasSection(after, b)
                  /\ KeyMap(after[SecIndex(after, b)])
                       = KeyMap(before[SecIndex(before, b)])


(***************************************************************************)
(* Properties of ManualClusterProvider                                     *)
(***************************************************************************)

\* The names given to AddCluster so far
NamesAdded ==
    {unit.added[i].Name : i \in 1..Len(unit.added)}

\* The AddCluster calls made so far with the given name
AddsOf(name) ==
    {i \in 1..Len(unit.added) : unit.added[i].Name = name}

\* C39: after any sequence of AddCluster calls, ListClusters returns the
\* names added, each of them once, GetClusterInfo of a name returns the
\* info of the latest AddCluster with that name, and GetClusterInfo of a
\* name never added returns an error and no info.
C39_ManualRegistry ==
    /\ unit.op = "ListClusters"
          => /\ unit.err = ""
             /\ {unit.names[i] : i \in 1..Len(unit.names)} = NamesAdded
             /\ Len(unit.names) = Cardinality(NamesAdded)
    /\ (unit.op = "GetClusterInfo" /\ unit.arg \in NamesAdded)
          => /\ unit.err = ""
             /\ unit.info = <<unit.added[Max(AddsOf(unit.arg))]>>
    /\ (unit.op = "GetClusterInfo" /\ unit.arg \notin NamesAdded)
          => /\ unit.err # ""
             /\ unit.info = <<>>

\* A name was added twice with different infos and then asked for
C39_Witness ==
    /\ unit.op = "GetClusterInfo"
    /\ Cardinality(AddsOf(unit.arg)) >= 2
    /\ \E i \in AddsOf(unit.arg) : <<unit.added[i]>> # unit.info
    /\ Cardinality(NamesAdded) = 2

====
